---- MODULE Spec2Model ----
(***************************************************************************)
(* Model of opencode-image-compress: the progressive compression engine    *)
(* (src/src/compression.ts), the image part processor                      *)
(* (src/src/image-processor.ts) and the cache / data-URI helpers           *)
(* (src/src/logger.ts, which carries utils.ts).                            *)
(*                                                                         *)
(* The image codec (sharp) is an external capability: the byte length of   *)
(* every encode, and whether a codec call raises, are nondeterministic.    *)
(* Numbers that are floats in the source are kept as exact rationals:      *)
(* TARGET_MULTIPLIER is 7/10 and a scale is a reduced fraction n/d.        *)
(***************************************************************************)
EXTENDS Integers, Sequences, FiniteSets, TLC

\* ------------------------------------------------------------------------
\* Bounds of the model (not program constants)
\* ------------------------------------------------------------------------
NumTasks == 2
MaxCalls == 2
MaxKeys == 110
MaxBytes == 4
MaxLimit == 60
MaxQuality == 100

Tasks == 1..NumTasks

\* ------------------------------------------------------------------------
\* Program constants
\* ------------------------------------------------------------------------
KB == 1024
MB == 1048576
TARGET_MULTIPLIER_NUM == 7
TARGET_MULTIPLIER_DEN == 10
MAX_DIMENSION == 2048
MAX_CACHE_SIZE == 100
MAX_ATTEMPTS == 10
FALLBACK_DIMENSION == 1024

\* ------------------------------------------------------------------------
\* Arithmetic helpers
\* ------------------------------------------------------------------------
Max(a, b) == IF a >= b THEN a ELSE b
Min(a, b) == IF a <= b THEN a ELSE b

RECURSIVE GCD(_, _)
GCD(a, b) == IF b = 0 THEN a ELSE GCD(b, a % b)

\* a fraction n/d in lowest terms
Frac(n, d) == LET g == GCD(n, d) IN [n |-> n \div g, d |-> d \div g]

\* One octal digit of a long multiplication: from the quotient and remainder
\* of y * n by d to those of (8 * y + digit) * n by d
MulDivDigit(acc, digit, n, d) ==
    [q |-> 8 * acc.q + (8 * acc.r + digit * n) \div d,
     r |-> (8 * acc.r + digit * n) % d]

\* quotient and remainder of x * n by d, for 0 <= x < 8^5 and 0 <= n <= d
\* (the product itself need not fit the checker's integers); each digit's
\* result is bound as a value before the next digit uses it
MulDivRem(x, n, d) ==
    CHOOSE a5 \in
        {MulDivDigit(a4, x % 8, n, d) : a4 \in
            {MulDivDigit(a3, (x \div 8) % 8, n, d) : a3 \in
                {MulDivDigit(a2, (x \div 64) % 8, n, d) : a2 \in
                    {MulDivDigit(a1, (x \div 512) % 8, n, d) : a1 \in
                        {MulDivDigit([q |-> 0, r |-> 0], (x \div 4096) % 8, n, d)}}}}} : TRUE

\* Math.round(x * f) for x >= 0 and a fraction 0 <= f <= 1: floor(x*f + 1/2)
RoundMul(x, f) ==
    LET p == MulDivRem(x, f.n, f.d)
    IN  IF 2 * p.r >= f.d THEN p.q + 1 ELSE p.q

\* Math.ceil(n / d) for n >= 0, d > 0
CeilDiv(n, d) == (n + d - 1) \div d

\* len <= maxSize * TARGET_MULTIPLIER, in exact arithmetic
AtMostTarget(len, maxSize) ==
    len * TARGET_MULTIPLIER_DEN <= maxSize * TARGET_MULTIPLIER_NUM

\* ------------------------------------------------------------------------
\* Buffers, mimes and data URIs
\* ------------------------------------------------------------------------
\* A Buffer is the byte content of an image:
\*   origin   "input" for bytes handed in by a caller, "attempt" / "fallback"
\*            for bytes produced by an encode of the engine
\*   fmt      the format the bytes are actually encoded in
\*   width, height, len   pixel dimensions and byte length
\*   decodable   FALSE when the codec cannot read the bytes
\*   text     the character codes the model keeps of the base64 text
SupportedMimes ==
    {"image/jpeg", "image/jpg", "image/png", "image/webp", "image/avif", "image/gif"}

\* mime strings of the model; "image/bmp" is an image mime the engine does not
\* recognise, "application/pdf" is not an image mime
Mimes == SupportedMimes \cup {"image/bmp", "application/pdf"}

\* mime.startsWith('image/') over the mime strings of the model
StartsWithImage(mime) == mime \in SupportedMimes \cup {"image/bmp"}

ImgPhoto ==
    [origin |-> "input", fmt |-> "jpeg", width |-> 4096, height |-> 3072,
     len |-> 6000000, decodable |-> TRUE, text |-> <<65, 97>>]
ImgTall ==
    [origin |-> "input", fmt |-> "png", width |-> 1536, height |-> 3072,
     len |-> 3670017, decodable |-> TRUE, text |-> <<67, 67>>]
ImgScreen ==
    [origin |-> "input", fmt |-> "png", width |-> 2048, height |-> 1536,
     len |-> 3670016, decodable |-> TRUE, text |-> <<68, 68>>]
ImgIcon ==
    [origin |-> "input", fmt |-> "jpeg", width |-> 100, height |-> 100,
     len |-> 35841, decodable |-> TRUE, text |-> <<66, 66>>]
ImgThin ==
    [origin |-> "input", fmt |-> "png", width |-> 3, height |-> 1,
     len |-> 40000, decodable |-> TRUE, text |-> <<69, 69>>]
ImgCorrupt ==
    [origin |-> "input", fmt |-> "none", width |-> 0, height |-> 0,
     len |-> 4000000, decodable |-> FALSE, text |-> <<70, 70>>]

SourceImages == {ImgPhoto, ImgTall, ImgScreen, ImgIcon, ImgThin, ImgCorrupt}

\* the value a call has not produced (yet)
NoBuffer ==
    [origin |-> "none", fmt |-> "none", width |-> 0, height |-> 0,
     len |-> 0, decodable |-> FALSE, text |-> <<>>]

\* two characters for every byte, as buf.toString('hex') gives
toBase64_Hex(buf) == [chars |-> 2 * buf.len, data |-> buf]

\* buf.toString('base64'): 4 characters for every 3 bytes, padded
toBase64(buf) == [chars |-> 4 * CeilDiv(buf.len, 3), data |-> buf]

\* Buffer.from(payload, 'base64')
fromBase64(payload) == payload.data

\* `data:${mime};base64,${data.toString('base64')}`
DataUri(mime, buf) ==
    [head |-> "data:", mime |-> mime, marker |-> ";base64,", payload |-> toBase64(buf)]

\* a url whose text after the mime is not ';base64,' + payload
BrokenUri(mime) ==
    [head |-> "data:", mime |-> mime, marker |-> ";not-base64",
     payload |-> [chars |-> 0, data |-> NoBuffer]]

\* a well-formed prefix with an empty payload segment
EmptyPayloadUri(mime) ==
    [head |-> "data:", mime |-> mime, marker |-> ";base64,",
     payload |-> [chars |-> 0, data |-> NoBuffer]]

\* a remote url
RemoteUri ==
    [head |-> "https:", mime |-> "", marker |-> "",
     payload |-> [chars |-> 0, data |-> NoBuffer]]

NoUri ==
    [head |-> "", mime |-> "", marker |-> "", payload |-> [chars |-> 0, data |-> NoBuffer]]

NoParse == [ok |-> FALSE, mime |-> "", data |-> NoBuffer]

\* dataUri.match(/^data:([^;]+);base64,(.+)$/)
parseDataUri(dataUri) ==
    IF /\ dataUri.head = "data:"
       /\ dataUri.mime # ""
       /\ dataUri.marker = ";base64,"
       /\ dataUri.payload.chars > 0
    THEN [ok |-> TRUE, mime |-> dataUri.mime, data |-> fromBase64(dataUri.payload)]
    ELSE NoParse

\* Math.ceil(base64Data.length * 0.75)
getSizeFromDataUri(dataUri) == CeilDiv(dataUri.payload.chars * 3, 4)

\* the guard without the test of the mime
isImageFilePart_AnyMime(part) ==
    /\ part.type = "file"
    /\ "url" \in DOMAIN part
    /\ part.url.head = "data:"

\* part.type === 'file' && mime is a string starting with 'image/' &&
\* url is a string starting with 'data:'
isImageFilePart(part) ==
    /\ part.type = "file"
    /\ "mime" \in DOMAIN part
    /\ StartsWithImage(part.mime)
    /\ "url" \in DOMAIN part
    /\ part.url.head = "data:"


\* ------------------------------------------------------------------------
\* Cache (utils: imageCache, hashBase64, getCacheKey, get/setCachedImage)
\* ------------------------------------------------------------------------
\* One round of the hash loop on a 32-bit value kept as two 16-bit halves:
\* hash = ((hash << 5) - hash + char) | 0, that is (31 * hash + char) mod 2^32
HashStep(h, char) ==
    LET lo == h.lo * 31 + char
        hi == h.hi * 31 + (lo \div 65536)
    IN  [hi |-> hi % 65536, lo |-> lo % 65536]

RECURSIVE HashLoop(_, _, _)
HashLoop(h, codes, i) ==
    IF i > Len(codes) THEN h ELSE HashLoop(HashStep(h, codes[i]), codes, i + 1)

\* the signed 32-bit value of the two halves (the effect of `| 0`)
ToInt32(h) == IF h.hi >= 32768 THEN (h.hi - 65536) * 65536 + h.lo ELSE h.hi * 65536 + h.lo

Digits36 ==
    <<"0", "1", "2", "3", "4", "5", "6", "7", "8", "9", "a", "b", "c", "d", "e", "f", "g", "h",
      "i", "j", "k", "l", "m", "n", "o", "p", "q", "r", "s", "t", "u", "v", "w", "x", "y", "z">>

RECURSIVE ToBase36(_)
ToBase36(n) ==
    IF n < 36 THEN <<Digits36[n + 1]>>
    ELSE Append(ToBase36(n \div 36), Digits36[(n % 36) + 1])

\* hash.toString(36): a sign and the digits of the magnitude
toString36(v) ==
    IF v >= 0 THEN ToBase36(v)
    ELSE IF v = -2147483647 - 1 THEN <<"-", "z", "i", "k", "0", "z", "k">>
    ELSE <<"-">> \o ToBase36(-v)

\* the character codes of a url that the model keeps (those of its payload)
CharCodes(url) == url.payload.data.text

hashBase64(data) == toString36(ToInt32(HashLoop([hi |-> 0, lo |-> 0], CharCodes(data), 1)))

\* the characters of the provider ids that reach getCacheKey
ProviderChars(providerID) ==
    CASE providerID = "anthropic" -> <<"a", "n", "t", "h", "r", "o", "p", "i", "c">>
      [] providerID = "anthropic:1" ->
             <<"a", "n", "t", "h", "r", "o", "p", "i", "c", ":", "1">>
      [] providerID = "unknown-provider" ->
             <<"u", "n", "k", "n", "o", "w", "n", "-", "p", "r", "o", "v", "i", "d", "e", "r">>
      [] providerID = "default" -> <<"d", "e", "f", "a", "u", "l", "t">>
      [] providerID = "github-copilot" ->
             <<"g", "i", "t", "h", "u", "b", "-", "c", "o", "p", "i", "l", "o", "t">>

\* a key built from the hash alone
getCacheKey_HashOnly(providerID, imageUrl) == hashBase64(imageUrl)

\* `${providerID}:${hashBase64(imageUrl)}`, character by character
getCacheKey(providerID, imageUrl) ==
    ProviderChars(providerID) \o <<":">> \o hashBase64(imageUrl)

\* the cache is a Map: a sequence of [key, value] in insertion order
CacheKeys(cache) == {cache[i].key : i \in 1..Len(cache)}

CacheIndex(cache, cacheKey) == CHOOSE i \in 1..Len(cache) : cache[i].key = cacheKey

\* imageCache.get(cacheKey); NoUri stands for undefined
getCachedImage(cache, cacheKey) ==
    IF cacheKey \in CacheKeys(cache) THEN cache[CacheIndex(cache, cacheKey)].value ELSE NoUri

\* `if (cached)`: undefined and the empty string are falsy
Truthy(uri) == uri # NoUri

\* `if (firstKey)`: the empty string is falsy
TruthyKey(key) == \E i \in 1..Len(key) : key[i] # ""

\* Map.set: an existing key keeps its position, a new key goes last
MapSet(cache, cacheKey, dataUri) ==
    IF cacheKey \in CacheKeys(cache)
    THEN [cache EXCEPT ![CacheIndex(cache, cacheKey)].value = dataUri]
    ELSE Append(cache, [key |-> cacheKey, value |-> dataUri])

\* the insert alone, its eviction check left to a later turn
setCachedImage_Deferred(cache, cacheKey, dataUri) == MapSet(cache, cacheKey, dataUri)

\* the cache after setCachedImage(cacheKey, dataUri)
setCachedImage(cache, cacheKey, dataUri) ==
    LET stored == MapSet(cache, cacheKey, dataUri)
    IN  IF Len(stored) > MAX_CACHE_SIZE /\ TruthyKey(stored[1].key)
        THEN Tail(stored)
        ELSE stored

\* ------------------------------------------------------------------------
\* Strings whose characters matter (model identifiers): sequences of
\* one-character strings
\* ------------------------------------------------------------------------
UpperCaseLetters == <<"A", "B", "C", "D", "E", "F", "G", "H", "I", "J", "K", "L", "M", "N", "O", "P", "Q", "R", "S", "T", "U", "V", "W", "X", "Y", "Z">>

LowerCaseLetters == <<"a", "b", "c", "d", "e", "f", "g", "h", "i", "j", "k", "l", "m", "n", "o", "p", "q", "r", "s", "t", "u", "v", "w", "x", "y", "z">>

LetterIndex(letters, c) == CHOOSE i \in 1..Len(letters) : letters[i] = c

\* String.prototype.toLowerCase
toLowerCase(str) ==
    [i \in 1..Len(str) |->
        IF \E k \in 1..Len(UpperCaseLetters) : UpperCaseLetters[k] = str[i]
        THEN LowerCaseLetters[LetterIndex(UpperCaseLetters, str[i])]
        ELSE str[i]]

\* String.prototype.toUpperCase
toUpperCase(str) ==
    [i \in 1..Len(str) |->
        IF \E k \in 1..Len(LowerCaseLetters) : LowerCaseLetters[k] = str[i]
        THEN UpperCaseLetters[LetterIndex(LowerCaseLetters, str[i])]
        ELSE str[i]]

\* String.prototype.startsWith
startsWith(str, prefix) ==
    /\ Len(prefix) <= Len(str)
    /\ \A i \in 1..Len(prefix) : str[i] = prefix[i]

\* ------------------------------------------------------------------------
\* Data URIs character by character: a string is a sequence of one-character
\* strings, a Buffer a sequence of bytes. (The records of DataUri above stand
\* for uris whose mime holds no ';' and whose payload holds no line break.)
\* ------------------------------------------------------------------------
Base64Alphabet ==
    <<"A", "B", "C", "D", "E", "F", "G", "H", "I", "J", "K", "L", "M", "N", "O", "P",
      "Q", "R", "S", "T", "U", "V", "W", "X", "Y", "Z", "a", "b", "c", "d", "e", "f",
      "g", "h", "i", "j", "k", "l", "m", "n", "o", "p", "q", "r", "s", "t", "u", "v",
      "w", "x", "y", "z", "0", "1", "2", "3", "4", "5", "6", "7", "8", "9", "+", "/">>

\* buf.toString('base64'): three bytes give four characters, the last group
\* is padded with '='
RECURSIVE toStringBase64(_)
toStringBase64(bytes) ==
    IF Len(bytes) = 0
    THEN <<>>
    ELSE IF Len(bytes) = 1
    THEN <<Base64Alphabet[(bytes[1] \div 4) + 1],
           Base64Alphabet[((bytes[1] % 4) * 16) + 1], "=", "=">>
    ELSE IF Len(bytes) = 2
    THEN LET n == bytes[1] * 256 + bytes[2]
         IN  <<Base64Alphabet[(n \div 1024) + 1],
               Base64Alphabet[((n \div 16) % 64) + 1],
               Base64Alphabet[((n % 16) * 4) + 1], "=">>
    ELSE LET n == bytes[1] * 65536 + bytes[2] * 256 + bytes[3]
         IN  <<Base64Alphabet[(n \div 262144) + 1],
               Base64Alphabet[((n \div 4096) % 64) + 1],
               Base64Alphabet[((n \div 64) % 64) + 1],
               Base64Alphabet[(n % 64) + 1]>> \o toStringBase64(SubSeq(bytes, 4, Len(bytes)))

\* the characters the decoder takes: the alphabet and its url-safe variants
IsBase64Char(c) ==
    \/ c \in {"-", "_"}
    \/ \E i \in 1..Len(Base64Alphabet) : Base64Alphabet[i] = c

Base64Value(c) ==
    IF c = "-" THEN 62
    ELSE IF c = "_" THEN 63
    ELSE LetterIndex(Base64Alphabet, c) - 1

\* the payload up to its first '=': the decoder stops at the padding
UpToPadding(chars) ==
    IF \E i \in 1..Len(chars) : chars[i] = "="
    THEN SubSeq(chars, 1,
                (CHOOSE i \in 1..Len(chars) :
                    chars[i] = "=" /\ \A j \in 1..(i - 1) : chars[j] # "=") - 1)
    ELSE chars

\* the six-bit values of the characters the decoder does not skip
Sextets(chars) ==
    LET kept == SelectSeq(UpToPadding(chars), IsBase64Char)
    IN  [i \in 1..Len(kept) |-> Base64Value(kept[i])]

RECURSIVE Octets(_)
Octets(v) ==
    IF Len(v) < 2
    THEN <<>>
    ELSE IF Len(v) = 2
    THEN <<v[1] * 4 + (v[2] \div 16)>>
    ELSE IF Len(v) = 3
    THEN <<v[1] * 4 + (v[2] \div 16), (v[2] % 16) * 16 + (v[3] \div 4)>>
    ELSE <<v[1] * 4 + (v[2] \div 16), (v[2] % 16) * 16 + (v[3] \div 4),
           (v[3] % 4) * 64 + v[4]>> \o Octets(SubSeq(v, 5, Len(v)))

\* Buffer.from(payload, 'base64'): never raises; characters outside the
\* alphabet are skipped
BufferFromBase64(chars) == Octets(Sextets(chars))

DataPrefix == <<"d", "a", "t", "a", ":">>

Base64Marker == <<";", "b", "a", "s", "e", "6", "4", ",">>

\* the characters `.` does not match
LineTerminators == {"\n", "\r"}

\* the position of the first c in str, 0 when there is none
IndexOf(str, c) ==
    IF \E i \in 1..Len(str) : str[i] = c
    THEN CHOOSE i \in 1..Len(str) : str[i] = c /\ \A j \in 1..(i - 1) : str[j] # c
    ELSE 0

\* null
NoParsed == [ok |-> FALSE, mime |-> <<>>, bytes |-> <<>>]

\* parseDataUri on the characters of dataUri: the match of
\* /^data:([^;]+);base64,(.+)$/ and the decoding of its second group
parseDataUriText(dataUri) ==
    IF ~startsWith(dataUri, DataPrefix)
    THEN NoParsed
    ELSE LET rest == SubSeq(dataUri, Len(DataPrefix) + 1, Len(dataUri))
             semi == IndexOf(rest, ";")
             after == SubSeq(rest, semi, Len(rest))
             payload == SubSeq(after, Len(Base64Marker) + 1, Len(after))
         IN  IF semi <= 1
             THEN NoParsed
             ELSE IF ~startsWith(after, Base64Marker)
             THEN NoParsed
             ELSE IF payload = <<>> \/ \E i \in 1..Len(payload) : payload[i] \in LineTerminators
             THEN NoParsed
             ELSE [ok |-> TRUE, mime |-> SubSeq(rest, 1, semi - 1),
                   bytes |-> BufferFromBase64(payload)]

\* the template with the ';base64' of the marker left out
DataUriText_Plain(mime, bytes) == DataPrefix \o mime \o <<",">> \o toStringBase64(bytes)

\* `data:${mime};base64,${data.toString('base64')}`
DataUriText(mime, bytes) == DataPrefix \o mime \o Base64Marker \o toStringBase64(bytes)


\* ------------------------------------------------------------------------
\* Provider limits (providers.ts) and getProviderLimit
\* ------------------------------------------------------------------------
KnownProviders ==
    {"anthropic", "amazon-bedrock", "openai", "azure", "google", "google-vertex",
     "google-vertex-anthropic", "groq", "fireworks-ai", "perplexity", "xai", "deepseek",
     "togetherai", "mistral", "default"}

PROVIDER_IMAGE_LIMITS ==
    [p \in KnownProviders |->
        CASE p = "anthropic" -> 5 * MB
          [] p = "amazon-bedrock" -> 3932160
          [] p = "openai" -> 20 * MB
          [] p = "azure" -> 20 * MB
          [] p = "google" -> 100 * MB
          [] p = "google-vertex" -> 7 * MB
          [] p = "google-vertex-anthropic" -> 5 * MB
          [] p = "groq" -> 4 * MB
          [] p = "fireworks-ai" -> 10 * MB
          [] p = "perplexity" -> 50 * MB
          [] p = "xai" -> 20 * MB
          [] p = "deepseek" -> 10 * MB
          [] p = "togetherai" -> 20 * MB
          [] p = "mistral" -> 10 * MB
          [] OTHER -> 5 * MB]

\* PROVIDER_IMAGE_LIMITS is an object literal: a property read also finds the
\* members it inherits from Object.prototype
ObjectPrototypeKeys ==
    {"constructor", "toString", "valueOf", "hasOwnProperty", "isPrototypeOf", "__proto__"}

\* stands for a member of Object.prototype (a function or an object): a
\* truthy value that is not a number
InheritedMember == -1

\* PROVIDER_IMAGE_LIMITS[providerID] || PROVIDER_IMAGE_LIMITS.default
getProviderLimit(providerID) ==
    IF providerID \in KnownProviders
    THEN PROVIDER_IMAGE_LIMITS[providerID]
    ELSE IF providerID \in ObjectPrototypeKeys
    THEN InheritedMember
    ELSE PROVIDER_IMAGE_LIMITS["default"]

\* the proxy set of the earlier table: no github-models, no openrouter
PROXY_PROVIDERS_Old == {"github-copilot", "copilot", "opencode"}

\* the proxy set with a destination that enforces its own limit
PROXY_PROVIDERS_AndVertex ==
    {"github-copilot", "opencode", "github-models", "openrouter", "google-vertex-anthropic"}

\* destinations that forward to an upstream provider
PROXY_PROVIDERS == {"github-copilot", "opencode", "github-models", "openrouter"}

\* model-identifier prefix -> upstream provider, in the order of the object
\* literal (the order Object.entries enumerates)
MODEL_PREFIX_TO_PROVIDER ==
    <<[prefix |-> <<"c", "l", "a", "u", "d", "e">>, provider |-> "anthropic"],
      [prefix |-> <<"g", "p", "t">>, provider |-> "openai"],
      [prefix |-> <<"o", "1">>, provider |-> "openai"],
      [prefix |-> <<"o", "3">>, provider |-> "openai"],
      [prefix |-> <<"o", "4">>, provider |-> "openai"],
      [prefix |-> <<"g", "e", "m", "i", "n", "i">>, provider |-> "google"],
      [prefix |-> <<"g", "r", "o", "k">>, provider |-> "xai"],
      [prefix |-> <<"d", "e", "e", "p", "s", "e", "e", "k">>, provider |-> "deepseek"],
      [prefix |-> <<"l", "l", "a", "m", "a">>, provider |-> "groq"],
      [prefix |-> <<"m", "i", "x", "t", "r", "a", "l">>, provider |-> "groq"],
      [prefix |-> <<"q", "w", "e", "n">>, provider |-> "fireworks-ai"],
      [prefix |-> <<"m", "i", "s", "t", "r", "a", "l">>, provider |-> "mistral"]>>

\* no model identifier supplied (undefined, or the empty string)
NoModel == <<>>

\* undefined as the result of resolveProviderFromModel
NoProvider == ""

RECURSIVE FirstPrefixMatch(_, _)
FirstPrefixMatch(lower, i) ==
    IF i > Len(MODEL_PREFIX_TO_PROVIDER) THEN NoProvider
    ELSE IF startsWith(lower, MODEL_PREFIX_TO_PROVIDER[i].prefix)
    THEN MODEL_PREFIX_TO_PROVIDER[i].provider
    ELSE FirstPrefixMatch(lower, i + 1)

\* the prefix match on the identifier as it is written
resolveProviderFromModel_CaseSensitive(modelID) == FirstPrefixMatch(modelID, 1)

\* resolveProviderFromModel(modelID): the provider of the first prefix the
\* lower-cased identifier starts with, NoProvider when there is none
resolveProviderFromModel(modelID) == FirstPrefixMatch(toLowerCase(modelID), 1)

\* resolveLimit(destinationID, modelID?), getProviderLimit(providerID, modelID)
\* in the tests: a proxy destination with a model identifier takes the limit
\* of the provider the identifier resolves to; everything else takes the
\* direct mapping of the destination, or the default
resolveLimit(destinationID, modelID) ==
    LET resolved ==
            IF destinationID \in PROXY_PROVIDERS /\ modelID # NoModel
            THEN resolveProviderFromModel(modelID)
            ELSE NoProvider
    IN  IF resolved # NoProvider
        THEN getProviderLimit(resolved)
        ELSE getProviderLimit(destinationID)

\* ------------------------------------------------------------------------
\* Compression engine (compression.ts): the pure parts
\* ------------------------------------------------------------------------
One == [n |-> 1, d |-> 1]

\* scale * 0.8
Shrink(scale) == Frac(scale.n * 4, scale.d * 5)

\* no initial scale-down
InitialScale_One(width, height) == One

\* maxDim > MAX_DIMENSION ? MAX_DIMENSION / maxDim : 1
InitialScale(width, height) ==
    LET maxDim == Max(width, height)
    IN  IF maxDim > MAX_DIMENSION THEN Frac(MAX_DIMENSION, maxDim) ELSE One

\* the initial quality as it was before gif joined png: level 9 for png alone
getInitialQuality_PngOnly(mime) == IF mime = "image/png" THEN 9 ELSE 90

getInitialQuality(mime) == IF mime = "image/png" \/ mime = "image/gif" THEN 9 ELSE 90

\* sharp's resize(boxW, boxH, {fit: 'inside', withoutEnlargement}): the largest
\* size of the same aspect ratio inside the box, each side rounded, at least 1
FitInside(width, height, boxW, boxH, withoutEnlargement) ==
    IF width * boxH >= height * boxW
    THEN IF withoutEnlargement /\ boxW >= width
         THEN [width |-> width, height |-> height]
         ELSE [width |-> boxW,
               height |-> Max(1, RoundMul(height, [n |-> boxW, d |-> width]))]
    ELSE IF withoutEnlargement /\ boxH >= height
         THEN [width |-> width, height |-> height]
         ELSE [width |-> Max(1, RoundMul(width, [n |-> boxH, d |-> height])),
               height |-> boxH]

\* resizeImage: the dimensions of the pipeline's output; ok is FALSE when
\* sharp rejects the requested box (a side that rounds to 0)
resizeImage(width, height, scale) ==
    IF scale.n >= scale.d
    THEN [ok |-> TRUE, width |-> width, height |-> height]
    ELSE LET boxW == RoundMul(width, scale)
             boxH == RoundMul(height, scale)
         IN  IF boxW < 1 \/ boxH < 1
             THEN [ok |-> FALSE, width |-> 0, height |-> 0]
             ELSE [ok |-> TRUE] @@ FitInside(width, height, boxW, boxH, TRUE)

\* compressWithQuality: the format the switch on mime encodes to
EncodedFormat(mime) ==
    CASE mime = "image/jpeg" \/ mime = "image/jpg" -> "jpeg"
      [] mime = "image/png" -> "png"
      [] mime = "image/webp" -> "webp"
      [] mime = "image/avif" -> "avif"
      [] mime = "image/gif" -> "png"
      [] OTHER -> "jpeg"

\* the buffer of an encode of len bytes
Encoded(origin, fmt, dims, len) ==
    [origin |-> origin, fmt |-> fmt, width |-> dims.width, height |-> dims.height,
     len |-> len, decodable |-> TRUE, text |-> <<>>]

\* calculateAdjustment as it was before the scale compounded: a fresh scale of
\* 1 or 0.8 whatever the current one, png alone on the level branch, and the
\* quality floored at 30
calculateAdjustment_Fresh(mime, currentQuality, currentScale) ==
    IF mime = "image/png"
    THEN IF currentQuality < 9
         THEN [quality |-> Min(9, currentQuality + 2), scale |-> One]
         ELSE [quality |-> 9, scale |-> Frac(4, 5)]
    ELSE LET newQuality == Max(30, currentQuality - 15)
         IN  IF newQuality <= 30
             THEN [quality |-> 85, scale |-> Frac(4, 5)]
             ELSE [quality |-> newQuality, scale |-> One]

\* the quality and scale of the next attempt
calculateAdjustment(mime, currentQuality, currentScale) ==
    IF mime = "image/png" \/ mime = "image/gif"
    THEN IF currentQuality < 9
         THEN [quality |-> Min(9, currentQuality + 2), scale |-> currentScale]
         ELSE [quality |-> 9, scale |-> Shrink(currentScale)]
    ELSE LET newQuality == currentQuality - 15
         IN  IF newQuality > 30
             THEN [quality |-> newQuality, scale |-> currentScale]
             ELSE [quality |-> 85, scale |-> Shrink(currentScale)]

\* a successful attempt keeping the input mime
AttemptMime_Keep(mime) == mime

\* the mime a successful progressive attempt reports
AttemptMime(mime) == IF mime = "image/gif" THEN "image/png" ELSE mime

\* aggressiveCompression: format and mime of the fallback encode
FallbackFormat(mime) == IF mime = "image/png" THEN "png" ELSE "jpeg"

\* aggressiveCompression: the compressionLevel or quality of its encode
FallbackQuality(mime) == IF mime = "image/png" THEN 9 ELSE 70

\* the fallback keeping the input mime
FallbackMime_Keep(mime) == mime

FallbackMime(mime) == IF mime = "image/png" THEN "image/png" ELSE "image/jpeg"

\* aggressiveCompression: resize(1024, 1024, {fit: 'inside'})
FallbackDims(width, height) ==
    FitInside(width, height, FALLBACK_DIMENSION, FALLBACK_DIMENSION, FALSE)

\* byte lengths an encode may produce against maxSize: the largest length
\* that meets the target and the smallest one that does not
EncodedSizes(maxSize) ==
    LET t == (maxSize * TARGET_MULTIPLIER_NUM) \div TARGET_MULTIPLIER_DEN
    IN  {t, t + 1}


\* ------------------------------------------------------------------------
\* State
\* ------------------------------------------------------------------------
VARIABLES
    imageCache,   \* the module-level Map of utils, as a sequence of [key, value]
    tasks,        \* per task: the call it runs, its locals and its result
    nCalls,       \* number of processImagePart calls made so far
    inserted,     \* what a caller has put into the cache with setCachedImage
                  \* itself: [key, value, times, used, reads] per key, in order of first insert
    batch         \* the messages.transform handler: its position, the messages
                  \* it was handed, their parts as they are now and its task list

vars == <<imageCache, tasks, nCalls, inserted, batch>>

NoPart == [ref |-> 0, type |-> "none"]

NoImage == [data |-> NoBuffer, mime |-> ""]

NoResult ==
    [part |-> NoPart, originalSize |-> 0, compressedSize |-> 0,
     wasCompressed |-> FALSE, failed |-> FALSE]

NoShape == [prefix |-> <<>>, mime |-> <<>>, marker |-> <<>>, payload |-> <<>>]

NoEncodedImage == [mime |-> <<>>, bytes |-> <<>>]

NoAdjustment == [quality |-> 0, scale |-> One]

\* pc: "idle", "metadata" (awaiting sharp.metadata), "attempt" (awaiting the
\*     resize and encode of a progressive attempt), "fallback" (awaiting the
\*     encode of aggressiveCompression), "done" (the call has settled)
\* via: how the engine ended: "short" (under target), "attempt", "fallback",
\*     "threw"; "none" while it has not ended or was never invoked
\* encodes, fallbacks, lookups, stores: how many progressive encodes, fallback
\*     encodes, cache reads and cache writes the call has made
\* modelID, limit, resolved: the model identifier handed to a resolver call,
\*     the byte ceiling and the provider it returned
\* codecError: the codec call that raised: "metadata", "attempt", "fallback";
\*     "none" when no codec call of the invocation has raised
\* shape, text: the pieces and the characters of the string handed to
\*     parseDataUri; image: the mime and bytes put into a data URI;
\*     parsed: what parseDataUri returned
\* previous: what the compressImage call returned whose result this call
\*     was handed as its input
\* adjustment: what calculateAdjustment returned for mime, quality and scale
\* pairs: the (quality, scale) each pass of the loop has handed to
\*     compressWithQuality, in order
IdleTask ==
    [pc |-> "idle", kind |-> "none", part |-> NoPart, providerID |-> "",
     imageData |-> NoBuffer, mime |-> "", maxSize |-> 0,
     width |-> 0, height |-> 0, quality |-> 0, scale |-> One, attempt |-> 0,
     engine |-> FALSE, via |-> "none", encodes |-> 0, fallbacks |-> 0,
     lookups |-> 0, stores |-> 0, codecError |-> "none",
     modelID |-> NoModel, limit |-> 0, resolved |-> NoProvider,
     shape |-> NoShape, text |-> <<>>, image |-> NoEncodedImage, parsed |-> NoParsed,
     previous |-> NoImage, adjustment |-> NoAdjustment, pairs |-> <<>>,
     out |-> NoImage, result |-> NoResult]

\* pc: "idle", "awaiting" (at `await Promise.all`), "done" (the results have
\*     been written back)
\* messages: output.messages as handed in; slots: the parts arrays as they are
\*     now; list: the handler's tasks array; writes: assignments per slot
IdleBatch ==
    [pc |-> "idle", messages |-> <<>>, slots |-> <<>>, list |-> <<>>, writes |-> <<>>,
     compressionStats |-> <<>>]

Init ==
    /\ imageCache = <<>>
    /\ tasks = [t \in Tasks |-> IdleTask]
    /\ nCalls = 0
    /\ inserted = <<>>
    /\ batch = IdleBatch

AllIdle == \A t \in Tasks : tasks[t].pc = "idle"

\* ------------------------------------------------------------------------
\* processImagePart: what follows `await compressImage(...)`
\* ------------------------------------------------------------------------
\* the try block reporting the original size as the compressed size and
\* leaving the part's mime as it was
ProcessSuccess_Stale(tk, compressed, cache) ==
    LET newDataUri == DataUri(compressed.mime, compressed.data)
        cacheKey == getCacheKey(tk.providerID, tk.part.url)
    IN  [cache |-> setCachedImage(cache, cacheKey, newDataUri),
         task |-> [tk EXCEPT
            !.pc = "done",
            !.out = compressed,
            !.stores = @ + 1,
            !.result =
                [part |-> [tk.part EXCEPT !.ref = 0, !.url = newDataUri],
                 originalSize |-> tk.imageData.len,
                 compressedSize |-> tk.imageData.len,
                 wasCompressed |-> TRUE,
                 failed |-> FALSE]]]

\* the try block after the engine returned compressed
ProcessSuccess(tk, compressed, cache) ==
    LET newDataUri == DataUri(compressed.mime, compressed.data)
        cacheKey == getCacheKey(tk.providerID, tk.part.url)
    IN  [cache |-> setCachedImage(cache, cacheKey, newDataUri),
         task |-> [tk EXCEPT
            !.pc = "done",
            !.out = compressed,
            !.stores = @ + 1,
            !.result =
                [part |-> [tk.part EXCEPT !.ref = 0, !.url = newDataUri,
                                          !.mime = compressed.mime],
                 originalSize |-> tk.imageData.len,
                 compressedSize |-> compressed.data.len,
                 wasCompressed |-> TRUE,
                 failed |-> FALSE]]]

\* the catch block reporting nothing compressed and nothing kept
ProcessCatch_Zero(tk, cache) ==
    [cache |-> cache,
     task |-> [tk EXCEPT
        !.pc = "done",
        !.result =
            [part |-> tk.part,
             originalSize |-> tk.imageData.len,
             compressedSize |-> 0,
             wasCompressed |-> FALSE,
             failed |-> TRUE]]]

\* the catch block
ProcessCatch(tk, cache) ==
    [cache |-> cache,
     task |-> [tk EXCEPT
        !.pc = "done",
        !.result =
            [part |-> tk.part,
             originalSize |-> tk.imageData.len,
             compressedSize |-> tk.imageData.len,
             wasCompressed |-> FALSE,
             failed |-> TRUE]]]

\* the engine returns image to its caller: the cache and the task afterwards
EngineReturned(tk, image, via, cache) ==
    LET ended == [tk EXCEPT !.via = via]
    IN  IF tk.kind = "process"
        THEN ProcessSuccess(ended, image, cache)
        ELSE [cache |-> cache, task |-> [ended EXCEPT !.pc = "done", !.out = image]]

\* the engine returns image to its caller
EngineReturn(t, tk, image, via) ==
    LET r == EngineReturned(tk, image, via, imageCache)
    IN  /\ tasks' = [tasks EXCEPT ![t] = r.task]
        /\ imageCache' = r.cache

\* a codec failure swallowed inside the engine: the input is handed back
EngineThrow_Swallow(t, tk) ==
    EngineReturn(t, tk, [data |-> tk.imageData, mime |-> tk.mime], "short")

\* a codec call raises inside the engine: no await of compressImage is inside
\* a try, so the rejection reaches the caller
EngineThrow(t, tk) ==
    LET ended == [tk EXCEPT !.via = "threw"]
    IN  IF tk.kind = "process"
        THEN LET r == ProcessCatch(ended, imageCache)
             IN  /\ tasks' = [tasks EXCEPT ![t] = r.task]
                 /\ imageCache' = r.cache
        ELSE /\ tasks' = [tasks EXCEPT ![t] = [ended EXCEPT !.pc = "done"]]
             /\ UNCHANGED imageCache


\* ------------------------------------------------------------------------
\* compressImage
\* ------------------------------------------------------------------------
\* the skip with < in place of <=
SkipCompress_Strict(imageData, maxSize) ==
    imageData.len * TARGET_MULTIPLIER_DEN < maxSize * TARGET_MULTIPLIER_NUM

\* imageData.length <= targetSize (the skip before any codec call)
SkipCompress(imageData, maxSize) == AtMostTarget(imageData.len, maxSize)

\* the test against maxSize in place of targetSize
MeetsTarget_MaxSize(processed, maxSize) == processed.len <= maxSize

\* processed.length <= targetSize (the test after an attempt's encode)
MeetsTarget(processed, maxSize) == AtMostTarget(processed.len, maxSize)

\* the loop condition with <= in place of <
LoopContinues_Inclusive(attempt) == attempt <= MAX_ATTEMPTS

\* the loop condition of the progressive attempts
LoopContinues(attempt) == attempt < MAX_ATTEMPTS

\* compressImage up to its first await: the cache and the task afterwards
CompressEntered(tk, cache) ==
    LET called == [tk EXCEPT !.engine = TRUE]
    IN  IF SkipCompress(called.imageData, called.maxSize)
        THEN EngineReturned(called, [data |-> called.imageData, mime |-> called.mime],
                            "short", cache)
        ELSE [cache |-> cache, task |-> [called EXCEPT !.pc = "metadata"]]

\* compressImage up to its first await
CompressBegin(t, tk) ==
    LET r == CompressEntered(tk, imageCache)
    IN  /\ tasks' = [tasks EXCEPT ![t] = r.task]
        /\ imageCache' = r.cache

\* a caller invokes compressImage(imageData, mime, maxSize) directly
CallCompress(t, imageData, mime, maxSize) ==
    /\ AllIdle
    /\ CompressBegin(t, [IdleTask EXCEPT !.kind = "compress", !.imageData = imageData,
                                         !.mime = mime, !.maxSize = maxSize])
    /\ UNCHANGED <<nCalls, inserted, batch>>

\* a caller hands what compressImage returned to compressImage once more,
\* with the same maxSize
CallCompressAgain(t) ==
    /\ tasks[t].kind = "compress"
    /\ tasks[t].pc = "done"
    /\ tasks[t].via \in {"short", "attempt", "fallback"}
    /\ tasks[t].previous = NoImage
    /\ CompressBegin(t, [IdleTask EXCEPT !.kind = "compress",
                                         !.imageData = tasks[t].out.data,
                                         !.mime = tasks[t].out.mime,
                                         !.maxSize = tasks[t].maxSize,
                                         !.previous = tasks[t].out])
    /\ UNCHANGED <<nCalls, inserted, batch>>

\* sharp(imageData).metadata() settles; the locals of the loop are set up
Metadata(t) ==
    LET tk == tasks[t]
    IN  /\ tk.pc = "metadata"
        /\ IF ~tk.imageData.decodable
           THEN EngineThrow(t, [tk EXCEPT !.codecError = "metadata"])
           ELSE /\ tasks' = [tasks EXCEPT ![t] = [tk EXCEPT
                        !.pc = "attempt",
                        !.width = tk.imageData.width,
                        !.height = tk.imageData.height,
                        !.scale = InitialScale(tk.imageData.width, tk.imageData.height),
                        !.quality = getInitialQuality(tk.mime),
                        !.attempt = 0]]
                /\ UNCHANGED imageCache
        /\ UNCHANGED <<nCalls, inserted, batch>>

\* one pass of the loop: resize, encode, test, adjust; the encode either
\* raises (outcome 0) or yields a buffer of outcome bytes
Attempt(t) ==
    LET tk == tasks[t]
        resized == resizeImage(tk.width, tk.height, tk.scale)
    IN  /\ tk.pc = "attempt"
        /\ IF ~resized.ok
           THEN EngineThrow(t, [tk EXCEPT !.codecError = "attempt"])
           ELSE \E outcome \in {0} \cup EncodedSizes(tk.maxSize) :
                LET tried == [tk EXCEPT !.encodes = @ + 1,
                                        !.pairs = Append(@, [quality |-> tk.quality,
                                                             scale |-> tk.scale])]
                    processed == Encoded("attempt", EncodedFormat(tk.mime), resized, outcome)
                    adjustment == calculateAdjustment(tk.mime, tk.quality, tk.scale)
                IN  IF outcome = 0
                    THEN EngineThrow(t, [tried EXCEPT !.codecError = "attempt"])
                    ELSE IF MeetsTarget(processed, tk.maxSize)
                    THEN EngineReturn(t, tried,
                             [data |-> processed, mime |-> AttemptMime(tk.mime)], "attempt")
                    ELSE /\ tasks' = [tasks EXCEPT ![t] = [tried EXCEPT
                                 !.quality = adjustment.quality,
                                 !.scale = adjustment.scale,
                                 !.attempt = tk.attempt + 1,
                                 !.pc = IF LoopContinues(tk.attempt + 1)
                                        THEN "attempt" ELSE "fallback"]]
                         /\ UNCHANGED imageCache
        /\ UNCHANGED <<nCalls, inserted, batch>>

\* aggressiveCompression: the encode raises (outcome 0) or yields a buffer
Fallback(t) ==
    LET tk == tasks[t]
    IN  /\ tk.pc = "fallback"
        /\ \E outcome \in {0} \cup EncodedSizes(tk.maxSize) :
            LET tried == [tk EXCEPT !.fallbacks = @ + 1]
                finalBuffer ==
                    Encoded("fallback", FallbackFormat(tk.mime),
                            FallbackDims(tk.imageData.width, tk.imageData.height), outcome)
            IN  IF outcome = 0
                THEN EngineThrow(t, [tried EXCEPT !.codecError = "fallback"])
                ELSE EngineReturn(t, tried,
                         [data |-> finalBuffer, mime |-> FallbackMime(tk.mime)], "fallback")
        /\ UNCHANGED <<nCalls, inserted, batch>>

\* the caller takes the settled result
Return(t) ==
    /\ tasks[t].pc = "done"
    /\ tasks' = [tasks EXCEPT ![t] = IdleTask]
    /\ UNCHANGED <<imageCache, nCalls, inserted, batch>>


\* ------------------------------------------------------------------------
\* processImagePart
\* ------------------------------------------------------------------------
\* originalSize <= targetSize
UnderTarget(originalSize, maxSize) == AtMostTarget(originalSize, maxSize)

\* the result for a part that is not an image with inline data
NoOpResult(part) ==
    [part |-> part, originalSize |-> 0, compressedSize |-> 0,
     wasCompressed |-> FALSE, failed |-> FALSE]

\* a parse failure reported without failed (as before the failed flag)
ParseFailedResult_Silent(part) ==
    [part |-> part, originalSize |-> 0, compressedSize |-> 0,
     wasCompressed |-> FALSE, failed |-> FALSE]

\* the result when parseDataUri returns null
ParseFailedResult(part) ==
    [part |-> part, originalSize |-> 0, compressedSize |-> 0,
     wasCompressed |-> FALSE, failed |-> TRUE]

\* a cache hit reporting the decoded length of the cached payload
CacheHitResult_ExactSize(imagePart, originalSize, cached) ==
    [part |-> [imagePart EXCEPT !.ref = 0, !.url = cached],
     originalSize |-> originalSize,
     compressedSize |-> parseDataUri(cached).data.len,
     wasCompressed |-> TRUE, failed |-> FALSE]

\* the result on a cache hit: { ...imagePart, url: cached }
CacheHitResult(imagePart, originalSize, cached) ==
    [part |-> [imagePart EXCEPT !.ref = 0, !.url = cached],
     originalSize |-> originalSize,
     compressedSize |-> getSizeFromDataUri(cached),
     wasCompressed |-> TRUE, failed |-> FALSE]

\* an under-target result carrying a shallow copy of the attachment
UnderTargetResult_Copy(imagePart, originalSize) ==
    [part |-> [imagePart EXCEPT !.ref = 0], originalSize |-> originalSize,
     compressedSize |-> originalSize, wasCompressed |-> FALSE, failed |-> FALSE]

\* the result for an image already under target
UnderTargetResult(imagePart, originalSize) ==
    [part |-> imagePart, originalSize |-> originalSize, compressedSize |-> originalSize,
     wasCompressed |-> FALSE, failed |-> FALSE]

\* processImagePart after `const maxSize = ...`, up to its return or up to the
\* first await inside compressImage: the cache and the task afterwards
ProcessWithLimit(part, providerID, modelID, maxSize, cache) ==
    LET tk == [IdleTask EXCEPT !.kind = "process", !.part = part, !.providerID = providerID,
                               !.modelID = modelID]
        settle(task, result) ==
            [cache |-> cache, task |-> [task EXCEPT !.pc = "done", !.result = result]]
    IN  IF ~isImageFilePart(part)
        THEN settle(tk, NoOpResult(part))
        ELSE LET parsed == parseDataUri(part.url)
                 originalSize == parsed.data.len
                 cacheKey == getCacheKey(providerID, part.url)
                 cached == getCachedImage(cache, cacheKey)
                 looked == [tk EXCEPT !.lookups = @ + 1, !.maxSize = maxSize,
                                      !.imageData = parsed.data, !.mime = parsed.mime]
             IN  IF ~parsed.ok
                 THEN settle(tk, ParseFailedResult(part))
                 ELSE IF Truthy(cached)
                 THEN settle(looked, CacheHitResult(part, originalSize, cached))
                 ELSE IF UnderTarget(originalSize, maxSize)
                 THEN settle(looked, UnderTargetResult(part, originalSize))
                 ELSE CompressEntered(looked, cache)

\* processImagePart(part, providerID)
ProcessEntered(part, providerID, cache) ==
    ProcessWithLimit(part, providerID, NoModel, getProviderLimit(providerID), cache)

\* process(attachment, destinationID, modelID?): maxSize comes from the limit
\* resolver, the cache key stays (destinationID, contentHash(url))
ProcessEnteredFor(part, destinationID, modelID, cache) ==
    ProcessWithLimit(part, destinationID, modelID, resolveLimit(destinationID, modelID), cache)

\* a caller invokes processImagePart(part, providerID)
CallProcess(t, part, providerID) ==
    LET r == ProcessEntered(part, providerID, imageCache)
    IN  /\ AllIdle
        /\ nCalls < MaxCalls
        /\ nCalls' = nCalls + 1
        /\ tasks' = [tasks EXCEPT ![t] = r.task]
        /\ imageCache' = r.cache
        /\ UNCHANGED <<inserted, batch>>

\* ------------------------------------------------------------------------
\* setCachedImage called by a caller itself
\* ------------------------------------------------------------------------
RECURSIVE ToDecimal(_)
ToDecimal(n) ==
    IF n < 10 THEN <<Digits36[n + 1]>>
    ELSE Append(ToDecimal(n \div 10), Digits36[(n % 10) + 1])

\* `key-${i}`
TestKey(i) == <<"key-">> \o ToDecimal(i)

\* `value-${i}`: a string that is not a data URI
TestValue(i) ==
    [head |-> "value-", mime |-> "", marker |-> "", payload |-> [chars |-> i, data |-> NoBuffer]]

\* the empty string as a key
EmptyKey == <<"">>

InsertedKeys == {inserted[i].key : i \in 1..Len(inserted)}

InsertedIndex(cacheKey) == CHOOSE i \in 1..Len(inserted) : inserted[i].key = cacheKey

\* the number of the latest direct call on the cache (sets and gets counted
\* together, from 1)
LastUse ==
    IF inserted = <<>> THEN 0
    ELSE LET i == CHOOSE i \in 1..Len(inserted) :
                      \A j \in 1..Len(inserted) : inserted[j].used <= inserted[i].used
         IN  inserted[i].used

\* a caller invokes setCachedImage(cacheKey, dataUri); these calls come before
\* the processImagePart calls of a run
CallSetCachedImage(cacheKey, dataUri) ==
    /\ AllIdle
    /\ nCalls = 0
    /\ imageCache' = setCachedImage(imageCache, cacheKey, dataUri)
    /\ inserted' =
         IF cacheKey \in InsertedKeys
         THEN [inserted EXCEPT ![InsertedIndex(cacheKey)] =
                  [key |-> cacheKey, value |-> dataUri, times |-> @.times + 1,
                   used |-> LastUse + 1, reads |-> @.reads]]
         ELSE Append(inserted, [key |-> cacheKey, value |-> dataUri, times |-> 1,
                                used |-> LastUse + 1, reads |-> 0])
    /\ UNCHANGED <<tasks, nCalls, batch>>

\* a caller invokes getCachedImage(cacheKey) for a key it has set: a Map.get,
\* which leaves the cache as it is
CallGetCachedImage(cacheKey) ==
    /\ AllIdle
    /\ nCalls = 0
    /\ cacheKey \in InsertedKeys
    /\ inserted' = [inserted EXCEPT ![InsertedIndex(cacheKey)] =
                       [@ EXCEPT !.used = LastUse + 1, !.reads = @ + 1]]
    /\ UNCHANGED <<imageCache, tasks, nCalls, batch>>

\* the first key of a full cache is read, once
ReadOldest ==
    /\ inserted # <<>>
    /\ Len(imageCache) = MAX_CACHE_SIZE
    /\ imageCache[1].key = inserted[1].key
    /\ inserted[1].reads = 0
    /\ getCachedImage(imageCache, imageCache[1].key) = imageCache[1].value
    /\ CallGetCachedImage(imageCache[1].key)

\* the next key of a loop over `key-${i}`
InsertFresh ==
    /\ Len(inserted) < MaxKeys
    /\ CallSetCachedImage(TestKey(Len(inserted)), TestValue(Len(inserted)))

\* the empty string as the first key
InsertEmptyKey ==
    /\ inserted = <<>>
    /\ CallSetCachedImage(EmptyKey, TestValue(0))

\* the first key of a full cache once more, with another value
InsertRepeated ==
    /\ inserted # <<>>
    /\ Len(imageCache) = MAX_CACHE_SIZE
    /\ imageCache[1].key = inserted[1].key
    /\ inserted[1].times = 1
    /\ CallSetCachedImage(inserted[1].key, TestValue(MaxKeys + 1))

\* ------------------------------------------------------------------------
\* Limit resolver calls
\* ------------------------------------------------------------------------
\* a caller asks for the byte ceiling of a destination, with or without a
\* model identifier
CallResolveLimit(t, destinationID, modelID) ==
    /\ AllIdle
    /\ tasks' = [tasks EXCEPT ![t] = [IdleTask EXCEPT
            !.kind = "limit", !.pc = "done",
            !.providerID = destinationID, !.modelID = modelID,
            !.limit = resolveLimit(destinationID, modelID)]]
    /\ UNCHANGED <<imageCache, nCalls, inserted, batch>>

\* a caller asks for the provider of a model identifier
CallResolveProvider(t, modelID) ==
    /\ AllIdle
    /\ tasks' = [tasks EXCEPT ![t] = [IdleTask EXCEPT
            !.kind = "provider", !.pc = "done",
            !.modelID = modelID,
            !.resolved = resolveProviderFromModel(modelID)]]
    /\ UNCHANGED <<imageCache, nCalls, inserted, batch>>

\* ------------------------------------------------------------------------
\* calculateAdjustment on its own
\* ------------------------------------------------------------------------
\* calculateAdjustment(mime, currentQuality, currentScale) is applied
CallAdjust(t, mime, currentQuality, currentScale) ==
    /\ AllIdle
    /\ tasks' = [tasks EXCEPT ![t] = [IdleTask EXCEPT
            !.kind = "adjust", !.pc = "done",
            !.mime = mime, !.quality = currentQuality, !.scale = currentScale,
            !.adjustment = calculateAdjustment(mime, currentQuality, currentScale)]]
    /\ UNCHANGED <<imageCache, nCalls, inserted, batch>>

\* the qualities and scales calculateAdjustment is applied to
Qualities == 0..MaxQuality

Scales == {One, Frac(4, 5), Frac(16, 25), Frac(1, 2), Frac(2048, 4096)}

\* ------------------------------------------------------------------------
\* Data-URI codec calls
\* ------------------------------------------------------------------------
\* the string made of the pieces of shape
ShapeText(shape) == shape.prefix \o shape.mime \o shape.marker \o shape.payload

\* a caller invokes parseDataUri on the string of shape
CallParse(t, shape) ==
    /\ AllIdle
    /\ tasks' = [tasks EXCEPT ![t] = [IdleTask EXCEPT
            !.kind = "parse", !.pc = "done",
            !.shape = shape, !.text = ShapeText(shape),
            !.parsed = parseDataUriText(ShapeText(shape))]]
    /\ UNCHANGED <<imageCache, nCalls, inserted, batch>>

\* a caller builds the data URI of image, as processImagePart does for what
\* the engine returned, and parses it
CallSerializeParse(t, image) ==
    /\ AllIdle
    /\ tasks' = [tasks EXCEPT ![t] = [IdleTask EXCEPT
            !.kind = "roundtrip", !.pc = "done",
            !.image = image, !.text = DataUriText(image.mime, image.bytes),
            !.parsed = parseDataUriText(DataUriText(image.mime, image.bytes))]]
    /\ UNCHANGED <<imageCache, nCalls, inserted, batch>>

\* ------------------------------------------------------------------------
\* Inputs of the calls
\* ------------------------------------------------------------------------
\* model identifiers handed to the resolver
ModelIDs ==
    {<<"c", "l", "a", "u", "d", "e", "-", "s", "o", "n", "n", "e", "t", "-", "4", "-", "5">>,
     <<"C", "l", "a", "u", "d", "e", "-", "S", "o", "n", "n", "e", "t", "-", "4", "-", "5">>,
     <<"C", "L", "A", "U", "D", "E">>,
     <<"g", "p", "t", "-", "4", "o">>,
     <<"G", "P", "T", "-", "4", "o">>,
     <<"o", "1", "-", "p", "r", "e", "v", "i", "e", "w">>,
     <<"O", "3", "-", "m", "i", "n", "i">>,
     <<"o", "4">>,
     <<"g", "e", "m", "i", "n", "i", "-", "2", ".", "5", "-", "p", "r", "o">>,
     <<"G", "e", "m", "i", "n", "i">>,
     <<"g", "r", "o", "k", "-", "4">>,
     <<"d", "e", "e", "p", "s", "e", "e", "k", "-", "r", "1">>,
     <<"l", "l", "a", "m", "a", "-", "4", "-", "s", "c", "o", "u", "t">>,
     <<"M", "i", "x", "t", "r", "a", "l", "-", "8", "x", "7", "b">>,
     <<"q", "w", "e", "n", "3">>,
     <<"m", "i", "s", "t", "r", "a", "l", "-", "l", "a", "r", "g", "e">>,
     <<"M", "I", "S", "T", "R", "A", "L">>,
     <<"s", "o", "m", "e", "-", "u", "n", "k", "n", "o", "w", "n", "-", "m", "o", "d", "e", "l">>,
     <<"o", "p", "e", "n", "a", "i">>,
     <<"x", "c", "l", "a", "u", "d", "e">>,
     <<"c", "l", "a", "u">>,
     <<"o">>,
     <<"g", "p">>,
     <<"Z">>}

\* destination identifiers handed to the resolver: the keys of the limits
\* table, the proxies, an unknown name and a name Object.prototype defines
Destinations ==
    {"anthropic", "amazon-bedrock", "openai", "azure", "google", "google-vertex",
     "google-vertex-anthropic", "groq", "fireworks-ai", "perplexity", "xai", "deepseek",
     "togetherai", "mistral", "default",
     "github-copilot", "opencode", "github-models", "openrouter",
     "unknown-provider", "constructor"}

\* maxSize values handed to compressImage directly
DirectLimits == {5 * MB, 50 * KB}

\* maxSize values of a few bytes, and one of the tests
SmallLimits == (1..MaxLimit) \cup {50 * KB}

\* parts handed to processImagePart: ref is the identity of the object
TextPart == [ref |-> 1, type |-> "text"]
PdfPart ==
    [ref |-> 2, type |-> "file", mime |-> "application/pdf",
     url |-> DataUri("application/pdf", ImgIcon)]
RemotePart == [ref |-> 3, type |-> "file", mime |-> "image/png", url |-> RemoteUri]
BrokenPart == [ref |-> 4, type |-> "file", mime |-> "image/jpeg", url |-> BrokenUri("image/jpeg")]
EmptyPart ==
    [ref |-> 5, type |-> "file", mime |-> "image/png", url |-> EmptyPayloadUri("image/png")]
PhotoPart ==
    [ref |-> 6, type |-> "file", mime |-> "image/jpeg", filename |-> "photo.jpg",
     url |-> DataUri("image/jpeg", ImgPhoto)]
IconPart ==
    [ref |-> 7, type |-> "file", mime |-> "image/jpeg", url |-> DataUri("image/jpeg", ImgIcon)]
GifPart ==
    [ref |-> 8, type |-> "file", mime |-> "image/gif", url |-> DataUri("image/gif", ImgTall)]
ScreenPart ==
    [ref |-> 9, type |-> "file", mime |-> "image/png", url |-> DataUri("image/png", ImgScreen)]
CorruptPart ==
    [ref |-> 10, type |-> "file", mime |-> "image/png", url |-> DataUri("image/png", ImgCorrupt)]

Parts ==
    {TextPart, PdfPart, RemotePart, BrokenPart, EmptyPart, PhotoPart, IconPart, GifPart,
     ScreenPart, CorruptPart}

Providers == {"anthropic", "unknown-provider"}

\* the pieces of the strings handed to parseDataUri
MimePng == <<"i", "m", "a", "g", "e", "/", "p", "n", "g">>

MimeJpeg == <<"i", "m", "a", "g", "e", "/", "j", "p", "e", "g">>

\* a mime with a parameter
MimeWithParameter == MimePng \o <<";", "n", "a", "m", "e", "=", "a">>

Prefixes == {DataPrefix, <<"D", "A", "T", "A", ":">>, <<"n", "o", "t", " ", "a", " ">>, <<>>}

MimeTexts == {MimePng, MimeWithParameter, <<"a">>, <<>>}

Markers ==
    {Base64Marker, <<";", "b", "a", "s", "e", "6", "4">>, <<";", "B", "A", "S", "E", "6", "4", ",">>,
     <<",">>, <<>>}

\* 'test' in base64, whole, broken into two lines and ended by a line break;
\* text outside the alphabet; unpadded text; nothing
Payloads ==
    {<<"d", "G", "V", "z", "d", "A", "=", "=">>,
     <<"d", "G", "V", "z", "\n", "d", "A", "=", "=">>,
     <<"d", "G", "V", "z", "d", "A", "=", "=", "\n">>,
     <<"!", "!", "!", "!">>,
     <<"Q", "Q">>,
     <<>>}

Shapes ==
    {[prefix |-> a, mime |-> b, marker |-> c, payload |-> d] :
        a \in Prefixes, b \in MimeTexts, c \in Markers, d \in Payloads}

\* the byte values of the buffers put into data URIs
ByteValues == {0, 77, 255}

RECURSIVE Buffers(_)
Buffers(n) ==
    IF n = 0
    THEN {<<>>}
    ELSE Buffers(n - 1) \cup
         {Append(b, v) : b \in {c \in Buffers(n - 1) : Len(c) = n - 1}, v \in ByteValues}

\* the images put into data URIs: buffers of up to MaxBytes bytes with a mime
\* of the engine, and every image parseDataUri yields on Shapes
EncodedImages ==
    {[mime |-> m, bytes |-> b] : m \in {MimePng, MimeJpeg}, b \in Buffers(MaxBytes)}
    \cup {[mime |-> parseDataUriText(ShapeText(s)).mime,
           bytes |-> parseDataUriText(ShapeText(s)).bytes] :
              s \in {x \in Shapes : parseDataUriText(ShapeText(x)).ok}}

\* ------------------------------------------------------------------------
\* processImagePart calls that overlap on a cache earlier calls have filled
\* ------------------------------------------------------------------------
\* the i-th image of the earlier calls: its text hashes to i
EarlierImage(i) == [ImgPhoto EXCEPT !.text = <<i>>]

EarlierPart(i) ==
    [ref |-> 100 + i, type |-> "file", mime |-> "image/jpeg",
     url |-> DataUri("image/jpeg", EarlierImage(i))]

\* what the call on EarlierPart(i) for anthropic stored, its first encode
\* having met the target
EarlierEntry(i) ==
    [key |-> getCacheKey("anthropic", EarlierPart(i).url),
     value |-> DataUri("image/jpeg",
                       Encoded("attempt", "jpeg", [width |-> 2048, height |-> 1536],
                               (getProviderLimit("anthropic") * TARGET_MULTIPLIER_NUM)
                                   \div TARGET_MULTIPLIER_DEN))]

\* the cache after MAX_CACHE_SIZE such calls
EarlierCache == [i \in 1..MAX_CACHE_SIZE |-> EarlierEntry(i)]

\* the part whose entry is the oldest one of EarlierCache
OldestPart == EarlierPart(1)

InitShared ==
    /\ imageCache \in {<<>>, EarlierCache}
    /\ tasks = [t \in Tasks |-> IdleTask]
    /\ nCalls = 0
    /\ inserted = <<>>
    /\ batch = IdleBatch

\* processImagePart(part, providerID) is called while other calls may be
\* waiting on the codec; the call becomes the first task not yet used
CallProcessShared(t, part, providerID) ==
    LET r == ProcessEntered(part, providerID, imageCache)
    IN  /\ tasks[t].pc = "idle"
        /\ \A u \in Tasks : u < t => tasks[u].pc # "idle"
        /\ nCalls < MaxCalls
        /\ nCalls' = nCalls + 1
        /\ tasks' = [tasks EXCEPT ![t] = r.task]
        /\ imageCache' = r.cache
        /\ UNCHANGED <<inserted, batch>>

SharedParts == {PhotoPart, OldestPart}

\* ------------------------------------------------------------------------
\* processImagePart calls one after the other, for several destinations
\* ------------------------------------------------------------------------
\* the next call of the sequence starts when the calls before it have settled
CallProcessNext(t, part, providerID) ==
    LET r == ProcessEntered(part, providerID, imageCache)
    IN  /\ tasks[t].pc = "idle"
        /\ \A u \in Tasks : u < t => tasks[u].pc = "done"
        /\ nCalls < MaxCalls
        /\ nCalls' = nCalls + 1
        /\ tasks' = [tasks EXCEPT ![t] = r.task]
        /\ imageCache' = r.cache
        /\ UNCHANGED <<inserted, batch>>

\* the next call of a sequence of process(attachment, destinationID, modelID)
CallProcessFor(t, part, destinationID, modelID) ==
    LET r == ProcessEnteredFor(part, destinationID, modelID, imageCache)
    IN  /\ tasks[t].pc = "idle"
        /\ \A u \in Tasks : u < t => tasks[u].pc = "done"
        /\ nCalls < MaxCalls
        /\ nCalls' = nCalls + 1
        /\ tasks' = [tasks EXCEPT ![t] = r.task]
        /\ imageCache' = r.cache
        /\ UNCHANGED <<inserted, batch>>

\* a proxy destination and a direct one
ProxyDestinations == {"github-copilot", "anthropic"}

\* model identifiers of providers with different limits, and none
ProxyModelIDs ==
    {<<"c", "l", "a", "u", "d", "e", "-", "s", "o", "n", "n", "e", "t", "-", "4", "-", "5">>,
     <<"l", "l", "a", "m", "a", "-", "3">>,
     NoModel}

\* two destinations of which one is a prefix of the other up to a colon and
\* the first character of a hash, and one apart from both
IsolationProviders == {"anthropic", "anthropic:1", "unknown-provider"}

IsolationParts == {PhotoPart, IconPart, ScreenPart}

\* ------------------------------------------------------------------------
\* The messages.transform handler
\* ------------------------------------------------------------------------
\* info.role === 'user'
isUserMessage(info) == info.role = "user"

\* the providerID of a message's tasks: userInfo.model?.providerID || 'default'
\* for a user message ("" stands for a missing model or providerID), 'default'
\* for any other message
MessageProviderID(message) ==
    IF isUserMessage(message) /\ message.providerID # ""
    THEN message.providerID
    ELSE "default"

\* `if (!message.parts) continue`
HasParts(message) == "parts" \in DOMAIN message

\* the tasks pushed for message m: one per image part, in the order of the parts
MessageTasks(messages, m) ==
    IF ~HasParts(messages[m])
    THEN <<>>
    ELSE LET parts == messages[m].parts
             found == SelectSeq([i \in 1..Len(parts) |-> i],
                                LAMBDA i : isImageFilePart(parts[i]))
         IN  [k \in 1..Len(found) |->
                [message |-> m, index |-> found[k],
                 providerID |-> MessageProviderID(messages[m])]]

\* the tasks array after the collecting loop over messages m..
RECURSIVE CollectTasks(_, _)
CollectTasks(messages, m) ==
    IF m > Len(messages)
    THEN <<>>
    ELSE MessageTasks(messages, m) \o CollectTasks(messages, m + 1)

\* tasks.map(task => processImagePart(...)) from task k on: every call runs up
\* to its first await before the next one starts
RECURSIVE MapProcess(_, _, _, _)
MapProcess(list, messages, k, cache) ==
    IF k > Len(list)
    THEN [cache |-> cache, started |-> <<>>]
    ELSE LET r == ProcessEntered(messages[list[k].message].parts[list[k].index],
                                 list[k].providerID, cache)
             rest == MapProcess(list, messages, k + 1, r.cache)
         IN  [cache |-> rest.cache, started |-> <<r.task>> \o rest.started]

\* the parts arrays of the messages
PartsOf(messages) ==
    [m \in 1..Len(messages) |-> IF HasParts(messages[m]) THEN messages[m].parts ELSE <<>>]

\* the handler is called with output.messages = messages and runs up to
\* `await Promise.all(...)`
TransformBegin(messages) ==
    LET list == CollectTasks(messages, 1)
        mapped == MapProcess(list, messages, 1, imageCache)
    IN  /\ batch.pc = "idle"
        /\ AllIdle
        /\ Len(list) <= NumTasks
        /\ nCalls + Len(list) <= MaxCalls
        /\ nCalls' = nCalls + Len(list)
        /\ tasks' = [t \in Tasks |-> IF t <= Len(list) THEN mapped.started[t] ELSE IdleTask]
        /\ imageCache' = mapped.cache
        /\ batch' = [pc |-> "awaiting", messages |-> messages, slots |-> PartsOf(messages),
                     list |-> list,
                     writes |-> [m \in 1..Len(messages) |->
                                   [i \in 1..Len(PartsOf(messages)[m]) |-> 0]],
                     compressionStats |-> <<>>]
        /\ UNCHANGED inserted

\* a join that resolves as soon as one task has settled
PromiseAll_Race ==
    \/ batch.list = <<>>
    \/ \E k \in 1..Len(batch.list) : tasks[k].pc = "done"

\* Promise.all resolves: every task has settled (processImagePart catches
\* what the engine throws, so no task rejects)
PromiseAll == \A k \in 1..Len(batch.list) : tasks[k].pc = "done"

\* the tasks whose slot is part i of message m
TasksOfSlot(m, i) ==
    {k \in 1..Len(batch.list) : batch.list[k].message = m /\ batch.list[k].index = i}

\* the last of a set of tasks: its assignment is the one that stays
LastTask(ks) == CHOOSE k \in ks : \A j \in ks : j <= k

\* the stats pushed by the loop over the results
RECURSIVE CompressionStats(_)
CompressionStats(k) ==
    IF k = 0
    THEN <<>>
    ELSE IF tasks[k].result.wasCompressed
    THEN Append(CompressionStats(k - 1),
                [originalSize |-> tasks[k].result.originalSize,
                 compressedSize |-> tasks[k].result.compressedSize])
    ELSE CompressionStats(k - 1)

\* the loop after the join: tasks[i].message.parts[tasks[i].index] = result.part
TransformApply ==
    /\ batch.pc = "awaiting"
    /\ PromiseAll
    /\ batch' = [batch EXCEPT
            !.pc = "done",
            !.slots = [m \in 1..Len(batch.slots) |->
                         [i \in 1..Len(batch.slots[m]) |->
                            IF TasksOfSlot(m, i) = {}
                            THEN batch.slots[m][i]
                            ELSE tasks[LastTask(TasksOfSlot(m, i))].result.part]],
            !.writes = [m \in 1..Len(batch.slots) |->
                          [i \in 1..Len(batch.slots[m]) |-> Cardinality(TasksOfSlot(m, i))]],
            !.compressionStats = CompressionStats(Len(batch.list))]
    /\ UNCHANGED <<imageCache, tasks, nCalls, inserted>>

\* the handler has returned; its tasks are gone
TransformEnd ==
    /\ batch.pc = "done"
    /\ batch' = IdleBatch
    /\ tasks' = [t \in Tasks |-> IdleTask]
    /\ UNCHANGED <<imageCache, nCalls, inserted>>

\* messages as the host hands them over
UserMessage(providerID, parts) == [role |-> "user", providerID |-> providerID, parts |-> parts]

AssistantMessage(parts) == [role |-> "assistant", providerID |-> "anthropic", parts |-> parts]

NoPartsMessage == [role |-> "user", providerID |-> "anthropic"]

\* the batches handed to the handler
Batches ==
    {<<UserMessage("anthropic", <<TextPart, PhotoPart, GifPart>>)>>,
     <<UserMessage("anthropic", <<GifPart, TextPart, PhotoPart>>)>>,
     <<UserMessage("anthropic", <<PhotoPart>>), AssistantMessage(<<TextPart, ScreenPart>>)>>,
     <<NoPartsMessage, UserMessage("", <<IconPart, CorruptPart>>)>>,
     <<UserMessage("anthropic", <<PdfPart, BrokenPart, RemotePart>>)>>,
     <<UserMessage("anthropic", <<PhotoPart>>)>>,
     <<UserMessage("anthropic", <<TextPart>>), UserMessage("", <<GifPart>>)>>,
     <<UserMessage("anthropic", <<GifPart, PhotoPart>>), AssistantMessage(<<CorruptPart>>)>>}

\* ------------------------------------------------------------------------
\* Specifications
\* ------------------------------------------------------------------------
EngineStep == \E t \in Tasks : Metadata(t) \/ Attempt(t) \/ Fallback(t)

\* processImagePart called again and again on the shared cache
Next ==
    \/ \E t \in Tasks, part \in Parts, providerID \in Providers : CallProcess(t, part, providerID)
    \/ \E t \in Tasks : Metadata(t)
    \/ \E t \in Tasks : Attempt(t)
    \/ \E t \in Tasks : Fallback(t)
    \/ \E t \in Tasks : Return(t)

Spec == Init /\ [][Next]_vars

\* compressImage called directly, as its unit tests do
NextEngine ==
    \/ \E t \in Tasks, imageData \in SourceImages, mime \in SupportedMimes \cup {"image/bmp"},
          maxSize \in DirectLimits : CallCompress(t, imageData, mime, maxSize)
    \/ \E t \in Tasks : Metadata(t)
    \/ \E t \in Tasks : Attempt(t)
    \/ \E t \in Tasks : Fallback(t)
    \/ \E t \in Tasks : Return(t)

SpecEngine == Init /\ [][NextEngine]_vars

\* compressImage called directly, and called again on what it returned
NextAgain ==
    \/ \E t \in Tasks, imageData \in SourceImages, mime \in SupportedMimes \cup {"image/bmp"},
          maxSize \in DirectLimits : CallCompress(t, imageData, mime, maxSize)
    \/ \E t \in Tasks : CallCompressAgain(t)
    \/ \E t \in Tasks : Metadata(t)
    \/ \E t \in Tasks : Attempt(t)
    \/ \E t \in Tasks : Fallback(t)
    \/ \E t \in Tasks : Return(t)

SpecAgain == Init /\ [][NextAgain]_vars

\* compressImage called directly with a small maxSize
NextSmall ==
    \/ \E t \in Tasks, maxSize \in SmallLimits : CallCompress(t, ImgIcon, "image/jpeg", maxSize)
    \/ \E t \in Tasks : Metadata(t)
    \/ \E t \in Tasks : Attempt(t)
    \/ \E t \in Tasks : Fallback(t)
    \/ \E t \in Tasks : Return(t)

SpecSmall == Init /\ [][NextSmall]_vars

\* calculateAdjustment applied to any mime, quality and scale
NextAdjust ==
    \/ \E t \in Tasks, mime \in SupportedMimes \cup {"image/bmp"},
          currentQuality \in Qualities, currentScale \in Scales :
            CallAdjust(t, mime, currentQuality, currentScale)
    \/ \E t \in Tasks : Return(t)

SpecAdjust == Init /\ [][NextAdjust]_vars

\* every codec call settles: a pending await is eventually resumed
FairSpecEngine == SpecEngine /\ WF_vars(EngineStep)

\* the limit resolver called on its own, as its unit tests do
NextResolver ==
    \/ \E t \in Tasks, destinationID \in Destinations, modelID \in ModelIDs \cup {NoModel} :
          CallResolveLimit(t, destinationID, modelID)
    \/ \E t \in Tasks, modelID \in ModelIDs \cup {NoModel} : CallResolveProvider(t, modelID)
    \/ \E t \in Tasks : Return(t)

SpecResolver == Init /\ [][NextResolver]_vars

\* setCachedImage called in a loop, as the unit test of the eviction does,
\* with processImagePart calls on the same cache
NextCache ==
    \/ InsertFresh
    \/ InsertEmptyKey
    \/ InsertRepeated
    \/ ReadOldest
    \/ \E t \in Tasks : CallProcess(t, PhotoPart, "anthropic")
    \/ \E t \in Tasks : Metadata(t)
    \/ \E t \in Tasks : Attempt(t)
    \/ \E t \in Tasks : Fallback(t)
    \/ \E t \in Tasks : Return(t)

SpecCache == Init /\ [][NextCache]_vars

\* the messages.transform handler called again and again: the tasks of one
\* batch run concurrently on the shared cache
NextBatch ==
    \/ \E messages \in Batches : TransformBegin(messages)
    \/ \E t \in Tasks : Metadata(t)
    \/ \E t \in Tasks : Attempt(t)
    \/ \E t \in Tasks : Fallback(t)
    \/ TransformApply
    \/ TransformEnd

SpecBatch == Init /\ [][NextBatch]_vars

\* parseDataUri and the data URI template called on their own, as the unit
\* tests of parseDataUri do
NextCodec ==
    \/ \E t \in Tasks, shape \in Shapes : CallParse(t, shape)
    \/ \E t \in Tasks, image \in EncodedImages : CallSerializeParse(t, image)
    \/ \E t \in Tasks : Return(t)

SpecCodec == Init /\ [][NextCodec]_vars

\* processImagePart calls that start at any time and overlap, on an empty
\* cache or on a full one
NextIsolation ==
    \/ \E t \in Tasks, part \in IsolationParts, providerID \in IsolationProviders :
          CallProcessNext(t, part, providerID)
    \/ \E t \in Tasks : Metadata(t)
    \/ \E t \in Tasks : Attempt(t)
    \/ \E t \in Tasks : Fallback(t)

SpecIsolation == Init /\ [][NextIsolation]_vars

NextProxy ==
    \/ \E t \in Tasks, part \in IsolationParts, destinationID \in ProxyDestinations,
          modelID \in ProxyModelIDs : CallProcessFor(t, part, destinationID, modelID)
    \/ \E t \in Tasks : Metadata(t)
    \/ \E t \in Tasks : Attempt(t)
    \/ \E t \in Tasks : Fallback(t)

SpecProxy == Init /\ [][NextProxy]_vars

\* processImagePart calls one after the other on an empty or a full cache,
\* over every kind of part
NextFrame ==
    \/ \E t \in Tasks, part \in Parts : CallProcessNext(t, part, "anthropic")
    \/ \E t \in Tasks : Metadata(t)
    \/ \E t \in Tasks : Attempt(t)
    \/ \E t \in Tasks : Fallback(t)

SpecFrame == InitShared /\ [][NextFrame]_vars

NextShared ==
    \/ \E t \in Tasks, part \in SharedParts : CallProcessShared(t, part, "anthropic")
    \/ \E t \in Tasks : Metadata(t)
    \/ \E t \in Tasks : Attempt(t)
    \/ \E t \in Tasks : Fallback(t)

SpecShared == InitShared /\ [][NextShared]_vars


\* ------------------------------------------------------------------------
\* Properties
\* ------------------------------------------------------------------------
Settled(t) == tasks[t].pc = "done"

Running(t) == tasks[t].pc \in {"metadata", "attempt", "fallback"}

\* the engine handed an image back (it did not raise)
Returned(t) == Settled(t) /\ tasks[t].via \in {"short", "attempt", "fallback"}

\* C1: a compress call whose input length is at most maxSize * 0.7 returns
\* exactly the input bytes and the input mime, and makes no codec call at all
\* (it never waits on metadata, a resize or an encode).
C1_ShortCircuit ==
    \A t \in Tasks :
        (/\ tasks[t].kind = "compress"
         /\ tasks[t].imageData.len * 10 <= tasks[t].maxSize * 7)
        => /\ Settled(t)
           /\ tasks[t].via = "short"
           /\ tasks[t].out = [data |-> tasks[t].imageData, mime |-> tasks[t].mime]
           /\ tasks[t].encodes = 0
           /\ tasks[t].fallbacks = 0

\* a compress call on an input of exactly maxSize * 0.7 bytes has returned
C1_Witness ==
    \E t \in Tasks :
        /\ tasks[t].kind = "compress"
        /\ Settled(t)
        /\ tasks[t].imageData.len * 10 = tasks[t].maxSize * 7
        /\ tasks[t].out.data = tasks[t].imageData

\* C2: a result returned from inside the progressive loop is at most
\* maxSize * 0.7 bytes long and strictly shorter than the input.
C2_AttemptMeetsTarget ==
    \A t \in Tasks :
        (Settled(t) /\ tasks[t].via = "attempt")
        => /\ tasks[t].out.data.len * 10 <= tasks[t].maxSize * 7
           /\ tasks[t].out.data.len < tasks[t].imageData.len
           /\ tasks[t].out.data.origin = "attempt"

\* a call has returned from a later pass of the loop, after failed attempts
C2_Witness ==
    \E t \in Tasks :
        /\ Settled(t)
        /\ tasks[t].via = "attempt"
        /\ tasks[t].attempt >= 3
        /\ tasks[t].out.data.len > 0

\* C3 (safety part): at most 10 progressive encodes, at most one fallback
\* encode and only after 10 progressive ones, and a call that settles without
\* a codec failure holds an image.
C3_Bounded ==
    \A t \in Tasks :
        /\ tasks[t].encodes <= 10
        /\ tasks[t].fallbacks <= 1
        /\ tasks[t].fallbacks = 1 => tasks[t].encodes = 10
        /\ Returned(t) => /\ tasks[t].out.data.origin \in {"input", "attempt", "fallback"}
                          /\ tasks[t].out.data.len > 0
                          /\ tasks[t].out.mime # ""

C4_FallbackResult ==
    \A t \in Tasks :
        tasks[t].attempt = 10
        => \/ tasks[t].pc = "fallback" /\ tasks[t].fallbacks = 0
           \/ /\ Settled(t)
              /\ tasks[t].fallbacks = 1
              /\ \/ tasks[t].via = "threw"
                 \/ /\ tasks[t].via = "fallback"
                    /\ tasks[t].out.data.origin = "fallback"
                    /\ tasks[t].out.mime =
                         IF tasks[t].mime = "image/png" THEN "image/png" ELSE "image/jpeg"

\* a fallback result that is still over target has been returned for a
\* mime that is neither png nor jpeg
C4_Witness ==
    \E t \in Tasks :
        /\ Settled(t)
        /\ tasks[t].via = "fallback"
        /\ tasks[t].attempt = 10
        /\ tasks[t].out.data.len * 10 > tasks[t].maxSize * 7
        /\ tasks[t].mime = "image/webp"
        /\ tasks[t].out.mime = "image/jpeg"


C6_OutputDimensions ==
    \A t \in Tasks :
        LET tk == tasks[t]
            maxDim == Max(tk.imageData.width, tk.imageData.height)
        IN  /\ (Returned(t) /\ tk.via = "fallback")
               => tk.out.data.width <= 1024 /\ tk.out.data.height <= 1024
            /\ (Returned(t) /\ tk.via = "attempt")
               => /\ tk.out.data.width <= 2048 /\ tk.out.data.height <= 2048
                  /\ tk.scale.n < tk.scale.d
                     => /\ tk.out.data.width <= RoundMul(tk.imageData.width, tk.scale)
                        /\ tk.out.data.height <= RoundMul(tk.imageData.height, tk.scale)
            /\ (tk.pc = "attempt" /\ tk.attempt = 0)
               => IF maxDim > 2048
                  THEN tk.scale.n * maxDim = tk.scale.d * 2048
                  ELSE tk.scale.n = tk.scale.d

\* a 4096-wide source has come back from a progressive attempt 2048 wide
C6_Witness ==
    \E t \in Tasks :
        /\ Returned(t)
        /\ tasks[t].via = "attempt"
        /\ tasks[t].imageData.len * 10 > tasks[t].maxSize * 7
        /\ tasks[t].imageData.width = 4096
        /\ tasks[t].out.data.width = 2048
        /\ tasks[t].out.data.height = 1536


\* the part of call t is an image with inline data: a file part with an
\* image/ mime and a data: url
InlineImage(part) ==
    /\ part.type = "file"
    /\ "mime" \in DOMAIN part
    /\ part.mime \in {"image/jpeg", "image/jpg", "image/png", "image/webp", "image/avif",
                      "image/gif", "image/bmp"}
    /\ "url" \in DOMAIN part
    /\ part.url.head = "data:"

\* the url has the shape data:<mime>;base64,<non-empty payload>
Parsable(url) ==
    /\ url.head = "data:"
    /\ url.mime # ""
    /\ url.marker = ";base64,"
    /\ url.payload.chars > 0

\* C7: when process has invoked the engine and the engine returned, the result
\* has wasCompressed, not failed, originalSize = the decoded input length,
\* compressedSize = the engine output length, and its part is a copy of the
\* input part with url = the data URI of the engine output and mime = the
\* engine output mime.
C7_CompressedResult ==
    \A t \in Tasks :
        (tasks[t].kind = "process" /\ Returned(t))
        => LET tk == tasks[t]
               r == tk.result
           IN  /\ r.wasCompressed
               /\ ~r.failed
               /\ r.originalSize = tk.part.url.payload.data.len
               /\ r.compressedSize = tk.out.data.len
               /\ r.part.url.head = "data:"
               /\ r.part.url.marker = ";base64,"
               /\ r.part.url.mime = tk.out.mime
               /\ r.part.url.payload.data = tk.out.data
               /\ r.part.url.payload.chars = 4 * ((tk.out.data.len + 2) \div 3)
               /\ r.part.mime = tk.out.mime
               /\ r.part.ref # tk.part.ref
               /\ DOMAIN r.part = DOMAIN tk.part
               /\ \A f \in DOMAIN tk.part \ {"ref", "url", "mime"} : r.part[f] = tk.part[f]

\* a gif part has been compressed by a progressive attempt: the returned part
\* is image/png and shorter than the original
C7_Witness ==
    \E t \in Tasks :
        /\ tasks[t].kind = "process"
        /\ Returned(t)
        /\ tasks[t].part.mime = "image/gif"
        /\ tasks[t].result.part.mime = "image/png"
        /\ tasks[t].result.compressedSize < tasks[t].result.originalSize

\* C8 as stated: for an image part whose decoded payload is at most the
\* target of its provider, process returns the original part with
\* wasCompressed and failed both false and both sizes = the decoded size,
\* whatever calls came before.
C8_UnderTargetUnchanged ==
    \A t \in Tasks :
        (/\ tasks[t].kind = "process"
         /\ Settled(t)
         /\ InlineImage(tasks[t].part)
         /\ Parsable(tasks[t].part.url)
         /\ tasks[t].part.url.payload.data.len * 10
                <= getProviderLimit(tasks[t].providerID) * 7)
        => tasks[t].result =
             [part |-> tasks[t].part,
              originalSize |-> tasks[t].part.url.payload.data.len,
              compressedSize |-> tasks[t].part.url.payload.data.len,
              wasCompressed |-> FALSE, failed |-> FALSE]

\* C9 (state part): a part that is not an image with inline data gets the
\* very same part back with wasCompressed and failed false and both sizes 0,
\* without a cache read, a cache write or an engine call.
C9_NoOpResult ==
    \A t \in Tasks :
        (tasks[t].kind = "process" /\ ~InlineImage(tasks[t].part))
        => /\ Settled(t)
           /\ tasks[t].result =
                [part |-> tasks[t].part, originalSize |-> 0, compressedSize |-> 0,
                 wasCompressed |-> FALSE, failed |-> FALSE]
           /\ tasks[t].result.part.ref = tasks[t].part.ref
           /\ tasks[t].lookups = 0
           /\ tasks[t].stores = 0
           /\ ~tasks[t].engine

\* C9 (frame part): the step that serves such a part leaves the cache as it was
C9_CacheKept ==
    \A t \in Tasks :
        (tasks[t].pc = "idle" /\ tasks'[t].kind = "process" /\ ~InlineImage(tasks'[t].part))
        => imageCache' = imageCache

\* C9: a part that is not an image with inline data is returned as the same
\* reference with a no-op result, and neither the cache nor the engine is
\* touched.
C9_NotAnImage == []C9_NoOpResult /\ [][C9_CacheKept]_vars

\* a pdf file part with a data: url has been served while the cache holds an
\* entry
C9_Witness ==
    \E t \in Tasks :
        /\ tasks[t].kind = "process"
        /\ Settled(t)
        /\ tasks[t].part.type = "file"
        /\ tasks[t].part.mime = "application/pdf"
        /\ tasks[t].result.part = tasks[t].part
        /\ Len(imageCache) > 0

\* C10 (state part): an image part whose url does not parse gets failed,
\* not wasCompressed, originalSize 0 and the original part, without a cache
\* read or write and without any engine call.
C10_FailedResult ==
    \A t \in Tasks :
        (/\ tasks[t].kind = "process"
         /\ InlineImage(tasks[t].part)
         /\ ~Parsable(tasks[t].part.url))
        => /\ Settled(t)
           /\ tasks[t].result.failed
           /\ ~tasks[t].result.wasCompressed
           /\ tasks[t].result.originalSize = 0
           /\ tasks[t].result.part = tasks[t].part
           /\ tasks[t].lookups = 0
           /\ tasks[t].stores = 0
           /\ ~tasks[t].engine
           /\ tasks[t].encodes = 0 /\ tasks[t].fallbacks = 0

\* C10 (frame part): the step that serves such a part leaves the cache as it was
C10_CacheKept ==
    \A t \in Tasks :
        (/\ tasks[t].pc = "idle"
         /\ tasks'[t].kind = "process"
         /\ InlineImage(tasks'[t].part)
         /\ ~Parsable(tasks'[t].part.url))
        => imageCache' = imageCache

\* C10: an image part whose url cannot be parsed as a base64 data URI is
\* reported failed with the original part, and the call ends there: no cache
\* lookup, no engine call, no retry.
C10_ParseFailure == []C10_FailedResult /\ [][C10_CacheKept]_vars

\* an image part with url 'data:image/jpeg;not-base64' has been reported
\* failed while the cache holds an entry
C10_Witness ==
    \E t \in Tasks :
        /\ tasks[t].kind = "process"
        /\ Settled(t)
        /\ InlineImage(tasks[t].part)
        /\ tasks[t].part.url.marker = ";not-base64"
        /\ tasks[t].result.failed
        /\ Len(imageCache) > 0


\* C11 (state part): when the engine raised during a process call, whether at
\* the metadata read, at a progressive attempt or at the fallback encode, the
\* call has settled with failed, not wasCompressed, the original part (same
\* reference), originalSize = the decoded length and compressedSize =
\* originalSize, and nothing was written to the cache.
C11_FailedResult ==
    \A t \in Tasks :
        (tasks[t].kind = "process" /\ tasks[t].codecError # "none")
        => /\ Settled(t)
           /\ tasks[t].via = "threw"
           /\ tasks[t].result =
                [part |-> tasks[t].part,
                 originalSize |-> tasks[t].part.url.payload.data.len,
                 compressedSize |-> tasks[t].part.url.payload.data.len,
                 wasCompressed |-> FALSE, failed |-> TRUE]
           /\ tasks[t].result.part.ref = tasks[t].part.ref
           /\ tasks[t].stores = 0

\* C11 (step part): once the engine has raised, the call makes no further
\* codec call: the only step left to it is handing its result to the caller.
C11_NoRetry ==
    \A t \in Tasks :
        (tasks[t].kind = "process" /\ tasks[t].codecError # "none")
        => \/ tasks'[t] = tasks[t]
           \/ tasks'[t].pc = "idle"

\* C11: if the engine raises at any point, process does not throw: it returns
\* failed = true, wasCompressed = false, the original part, originalSize = the
\* decoded size and compressedSize = originalSize, and does not invoke the
\* engine again.
C11_EngineFailure == []C11_FailedResult /\ [][C11_NoRetry]_vars

\* a process call has been reported failed after the fallback encode raised,
\* ten progressive attempts having missed the target before
C11_Witness ==
    \E t \in Tasks :
        /\ tasks[t].kind = "process"
        /\ Settled(t)
        /\ tasks[t].codecError = "fallback"
        /\ tasks[t].encodes = 10
        /\ tasks[t].result.failed
        /\ tasks[t].result.compressedSize = tasks[t].imageData.len

\* C12 as stated: compress throws to its caller only when the codec fails
\* during the fallback pass.
C12_ThrowsOnlyInFallback ==
    \A t \in Tasks :
        (Settled(t) /\ tasks[t].via = "threw") => tasks[t].codecError = "fallback"

\* C12 amended: compress throws to its caller exactly when one of its codec
\* calls fails, be it the metadata read, the resize or encode of a progressive
\* attempt or the fallback encode; a call none of whose codec calls fails
\* returns an image, and using up the 10 attempts raises nothing by itself.
C12_ThrowsIffCodecFails ==
    \A t \in Tasks :
        /\ Settled(t) /\ tasks[t].engine
           => /\ (tasks[t].via = "threw") <=> (tasks[t].codecError # "none")
              /\ tasks[t].codecError = "none" => Returned(t)
              /\ tasks[t].codecError = "metadata"
                 => tasks[t].encodes = 0 /\ tasks[t].fallbacks = 0
              /\ tasks[t].codecError = "attempt"
                 => tasks[t].encodes <= 10 /\ tasks[t].fallbacks = 0
              /\ tasks[t].codecError = "fallback"
                 => tasks[t].encodes = 10 /\ tasks[t].fallbacks = 1
        /\ Running(t) => tasks[t].codecError = "none" /\ tasks[t].via = "none"

\* a direct compress call has thrown because an encode of a progressive
\* attempt failed, after earlier attempts had missed the target
C12_Witness ==
    \E t \in Tasks :
        /\ tasks[t].kind = "compress"
        /\ Settled(t)
        /\ tasks[t].via = "threw"
        /\ tasks[t].codecError = "attempt"
        /\ tasks[t].encodes >= 2


\* the model identifier starts with the (lower-case) prefix when the case of
\* its letters is disregarded
HasPrefixIgnoringCase(modelID, prefix) ==
    /\ Len(prefix) <= Len(modelID)
    /\ \A i \in 1..Len(prefix) :
          \/ modelID[i] = prefix[i]
          \/ \E k \in 1..26 : UpperCaseLetters[k] = modelID[i] /\ LowerCaseLetters[k] = prefix[i]

\* C13: for each of the proxy destinations github-copilot, opencode,
\* github-models and openrouter, and a model identifier that starts, case
\* disregarded, with a key of the prefix table, the resolved limit is the byte
\* ceiling of the provider the key maps to: 5 MB (anthropic) for claude-*,
\* 20 MB (openai) for gpt-*.
C13_ProxyResolves ==
    \A t \in Tasks :
        (/\ tasks[t].kind = "limit"
         /\ tasks[t].providerID \in {"github-copilot", "opencode", "github-models", "openrouter"})
        => \A i \in 1..Len(MODEL_PREFIX_TO_PROVIDER) :
             HasPrefixIgnoringCase(tasks[t].modelID, MODEL_PREFIX_TO_PROVIDER[i].prefix)
             => /\ tasks[t].limit = PROVIDER_IMAGE_LIMITS[MODEL_PREFIX_TO_PROVIDER[i].provider]
                /\ MODEL_PREFIX_TO_PROVIDER[i].prefix = <<"c", "l", "a", "u", "d", "e">>
                   => tasks[t].limit = 5 * 1048576
                /\ MODEL_PREFIX_TO_PROVIDER[i].prefix = <<"g", "p", "t">>
                   => tasks[t].limit = 20 * 1048576

\* openrouter with model Claude-Sonnet-4-5 has resolved to 5 MB
C13_Witness ==
    \E t \in Tasks :
        /\ tasks[t].kind = "limit"
        /\ Settled(t)
        /\ tasks[t].providerID = "openrouter"
        /\ tasks[t].modelID = <<"C", "l", "a", "u", "d", "e", "-", "S", "o", "n", "n", "e", "t", "-", "4", "-", "5">>
        /\ tasks[t].limit = 5242880

\* C14: for a destination that is not a proxy the resolved limit is the one
\* resolved with no model identifier, whatever the model identifier; for
\* anthropic it is 5,242,880.
C14_NonProxyIgnoresModel ==
    \A t \in Tasks :
        (/\ tasks[t].kind = "limit"
         /\ tasks[t].providerID \notin {"github-copilot", "opencode", "github-models", "openrouter"})
        => /\ tasks[t].limit = resolveLimit(tasks[t].providerID, NoModel)
           /\ tasks[t].providerID = "anthropic" => tasks[t].limit = 5242880

\* anthropic with model gpt-4o has resolved to 5,242,880, not to the openai
\* limit
C14_Witness ==
    \E t \in Tasks :
        /\ tasks[t].kind = "limit"
        /\ Settled(t)
        /\ tasks[t].providerID = "anthropic"
        /\ tasks[t].modelID = <<"g", "p", "t", "-", "4", "o">>
        /\ tasks[t].limit = 5242880

\* C15 as stated: the resolver always returns a byte ceiling; for a
\* destination that is not a key of the limits table (and is not a proxy with
\* a model that resolves), and for a proxy whose model identifier matches no
\* prefix, the ceiling is the default, 5 MB.
C15_DefaultForUnmapped ==
    \A t \in Tasks :
        tasks[t].kind = "limit"
        => LET proxy == tasks[t].providerID \in
                            {"github-copilot", "opencode", "github-models", "openrouter"}
               matches == \E i \in 1..Len(MODEL_PREFIX_TO_PROVIDER) :
                            HasPrefixIgnoringCase(tasks[t].modelID,
                                                  MODEL_PREFIX_TO_PROVIDER[i].prefix)
           IN  /\ tasks[t].limit > 0
               /\ (~proxy /\ tasks[t].providerID \notin KnownProviders)
                  => tasks[t].limit = 5 * 1048576
               /\ (proxy /\ ~matches) => tasks[t].limit = 5 * 1048576

\* C16: resolveProviderFromModel returns the provider of the first prefix of
\* the table, in its order, that the model identifier starts with when case
\* is disregarded, and undefined when there is none; the identifier in upper
\* case and in lower case resolves to the same provider.
C16_PrefixMatch ==
    \A t \in Tasks :
        tasks[t].kind = "provider"
        => LET m == tasks[t].modelID
               hit(i) == HasPrefixIgnoringCase(m, MODEL_PREFIX_TO_PROVIDER[i].prefix)
           IN  /\ \/ \E i \in 1..Len(MODEL_PREFIX_TO_PROVIDER) :
                        /\ hit(i)
                        /\ \A j \in 1..(i - 1) : ~hit(j)
                        /\ tasks[t].resolved = MODEL_PREFIX_TO_PROVIDER[i].provider
                  \/ /\ \A i \in 1..Len(MODEL_PREFIX_TO_PROVIDER) : ~hit(i)
                     /\ tasks[t].resolved = NoProvider
               /\ resolveProviderFromModel(toUpperCase(m)) = tasks[t].resolved
               /\ resolveProviderFromModel(toLowerCase(m)) = tasks[t].resolved

\* the model identifier GPT-4o has resolved to openai
C16_Witness ==
    \E t \in Tasks :
        /\ tasks[t].kind = "provider"
        /\ Settled(t)
        /\ tasks[t].modelID = <<"G", "P", "T", "-", "4", "o">>
        /\ tasks[t].resolved = "openai"

\* C17 as stated: with no model identifier, anthropic resolves to 5 MB, openai
\* 20 MB, google 7 MB, groq 4 MB, amazon-bedrock 3.75 MB, perplexity 50 MB,
\* xai 20 MB, fireworks-ai 10 MB, togetherai 20 MB, google-vertex-anthropic
\* 5 MB, and opencode with a gemini-* model resolves to 7 MB.
C17_KnownLimits ==
    \A t \in Tasks :
        tasks[t].kind = "limit"
        => /\ tasks[t].modelID = NoModel
              => /\ tasks[t].providerID = "anthropic" => tasks[t].limit = 5 * 1048576
                 /\ tasks[t].providerID = "openai" => tasks[t].limit = 20 * 1048576
                 /\ tasks[t].providerID = "google" => tasks[t].limit = 7 * 1048576
                 /\ tasks[t].providerID = "groq" => tasks[t].limit = 4 * 1048576
                 /\ tasks[t].providerID = "amazon-bedrock" => tasks[t].limit = 3932160
                 /\ tasks[t].providerID = "perplexity" => tasks[t].limit = 50 * 1048576
                 /\ tasks[t].providerID = "xai" => tasks[t].limit = 20 * 1048576
                 /\ tasks[t].providerID = "fireworks-ai" => tasks[t].limit = 10 * 1048576
                 /\ tasks[t].providerID = "togetherai" => tasks[t].limit = 20 * 1048576
                 /\ tasks[t].providerID = "google-vertex-anthropic"
                    => tasks[t].limit = 5 * 1048576
           /\ (/\ tasks[t].providerID = "opencode"
               /\ HasPrefixIgnoringCase(tasks[t].modelID, <<"g", "e", "m", "i", "n", "i">>))
              => tasks[t].limit = 7 * 1048576


\* C18 as stated: from an empty cache, after n > 100 inserts with distinct
\* keys (and nothing else stored), exactly the n - 100 keys inserted first are
\* absent and each of the 100 keys inserted last is retrievable with the value
\* it was inserted with.
C18_EvictsOldest ==
    (/\ Len(inserted) > 100
     /\ \A i \in 1..Len(inserted) : inserted[i].times = 1
     /\ nCalls = 0)
    => LET n == Len(inserted)
       IN  /\ \A i \in 1..(n - 100) : getCachedImage(imageCache, inserted[i].key) = NoUri
           /\ \A i \in (n - 100 + 1)..n :
                 getCachedImage(imageCache, inserted[i].key) = inserted[i].value
           /\ Len(imageCache) = 100

\* C19 as stated: whatever setCachedImage calls (repeated keys and the empty
\* string as a key included) and process calls have been made, the cache
\* holds at most 100 entries.
C19_AtMostCapacity == Len(imageCache) <= 100

\* C20 as stated: a call served from the cache returns what the call returns
\* when the entry is lost and the image goes through the engine path again:
\* only an image over target comes back compressed, compressedSize is the
\* byte length of the image in the returned url, and the returned mime is
\* the mime of that image.
C20_CacheTransparent ==
    \A t \in Tasks :
        (/\ tasks[t].kind = "process"
         /\ Settled(t)
         /\ tasks[t].lookups = 1
         /\ ~tasks[t].engine
         /\ tasks[t].result.wasCompressed)
        => /\ tasks[t].result.originalSize * 10 > getProviderLimit(tasks[t].providerID) * 7
           /\ tasks[t].result.compressedSize = tasks[t].result.part.url.payload.data.len
           /\ tasks[t].result.part.mime = tasks[t].result.part.url.mime
           /\ ~tasks[t].result.failed

\* the task the handler made for part i of message m
SlotTask(m, i) == CHOOSE k \in TasksOfSlot(m, i) : TRUE

\* result is a result of processImagePart on original: the part it carries is
\* original itself or a copy of it with only url and mime replaced
ResultOf(result, original) ==
    \/ result.part = original
    \/ /\ result.part.ref = 0
       /\ DOMAIN result.part = DOMAIN original
       /\ [result.part EXCEPT !.ref = original.ref, !.url = original.url,
                              !.mime = original.mime] = original

\* C21: in a batch whose image parts are processed concurrently, under every
\* completion order each image slot receives the result computed from that
\* slot's own original part (no result lands in another slot, every image slot
\* is written exactly once, no other slot is touched), nothing is written
\* before the join, and the handler gets past the join only when every task
\* has settled.
C21_SlotsKeepTheirResults ==
    /\ batch.pc = "awaiting" => batch.slots = PartsOf(batch.messages)
    /\ batch.pc = "done" =>
        /\ \A k \in 1..Len(batch.list) : Settled(k)
        /\ \A m \in 1..Len(batch.slots) : \A i \in 1..Len(batch.slots[m]) :
            LET original == batch.messages[m].parts[i]
            IN  IF isImageFilePart(original)
                THEN /\ batch.writes[m][i] = 1
                     /\ Cardinality(TasksOfSlot(m, i)) = 1
                     /\ tasks[SlotTask(m, i)].part = original
                     /\ batch.slots[m][i] = tasks[SlotTask(m, i)].result.part
                     /\ ResultOf(tasks[SlotTask(m, i)].result, original)
                ELSE /\ batch.writes[m][i] = 0
                     /\ batch.slots[m][i] = original

\* a batch of a text part and two images has been written back: one image
\* went through all attempts and the fallback, the other was done after one
\* encode, and both slots hold a new part
C21_Witness ==
    /\ batch.pc = "done"
    /\ Len(batch.list) = 2
    /\ \E m \in 1..Len(batch.slots) : \E i \in 1..Len(batch.slots[m]) :
           batch.writes[m][i] = 0
    /\ tasks[1].via = "fallback"
    /\ tasks[2].via = "attempt"
    /\ tasks[2].encodes = 1
    /\ \A k \in 1..2 :
          /\ tasks[k].result.wasCompressed
          /\ batch.slots[batch.list[k].message][batch.list[k].index].ref = 0

\* uri is a whole data URI of an image the engine encoded
WholeUri(uri) ==
    /\ parseDataUri(uri).ok
    /\ uri = DataUri(uri.mime, uri.payload.data)
    /\ uri.payload.data.origin \in {"attempt", "fallback"}
    /\ uri.payload.data.len > 0

\* between any two turns the cache holds at most MAX_CACHE_SIZE entries, one
\* per key, each a whole data URI
CacheIntact ==
    /\ Len(imageCache) <= MAX_CACHE_SIZE
    /\ Cardinality(CacheKeys(imageCache)) = Len(imageCache)
    /\ \A i \in 1..Len(imageCache) : WholeUri(imageCache[i].value)

\* task t is called in this step
CalledNow(t) == tasks[t].pc = "idle" /\ tasks'[t].kind = "process"

\* a call that starts in this step either finds no entry under its key, or is
\* handed the whole value the cache holds under that key
LookupWhole ==
    \A t \in Tasks :
        (CalledNow(t) /\ tasks'[t].lookups = 1)
        => LET cacheKey == getCacheKey(tasks'[t].providerID, tasks'[t].part.url)
           IN  IF cacheKey \in CacheKeys(imageCache)
               THEN /\ tasks'[t].pc = "done"
                    /\ ~tasks'[t].engine
                    /\ tasks'[t].result.part.url = imageCache[CacheIndex(imageCache, cacheKey)].value
                    /\ WholeUri(tasks'[t].result.part.url)
                    /\ imageCache' = imageCache
               ELSE /\ tasks'[t].result.part \in {tasks'[t].part, NoPart}
                    /\ tasks'[t].result.part = NoPart <=> tasks'[t].engine

\* a step that changes the cache is one call's insert together with its
\* eviction check: one key is set to a whole value, and the cache was full
\* exactly when the oldest entry is gone afterwards
InsertAtomic ==
    imageCache' # imageCache =>
        \E t \in Tasks :
            LET cacheKey == getCacheKey(tasks[t].providerID, tasks[t].part.url)
                stored == MapSet(imageCache, cacheKey, tasks'[t].result.part.url)
            IN  /\ Running(t)
                /\ tasks'[t].pc = "done"
                /\ tasks'[t].stores = 1
                /\ WholeUri(tasks'[t].result.part.url)
                /\ imageCache' = IF Len(stored) > MAX_CACHE_SIZE THEN Tail(stored) ELSE stored

\* C22: under any interleaving of overlapping process calls on the shared
\* cache, an insert and its eviction check are one step, a lookup finds its
\* key absent or returns the whole value held under that key, and no turn
\* sees more than MAX_CACHE_SIZE entries or an entry that is not whole.
C22_CacheStepsAtomic == [](CacheIntact) /\ [][LookupWhole /\ InsertAtomic]_vars

\* on a full cache one call has stored its result, the oldest entry has made
\* room for it, and another call is still waiting on the codec
C22_Witness ==
    \E t, u \in Tasks :
        /\ Settled(t)
        /\ tasks[t].stores = 1
        /\ Running(u)
        /\ Len(imageCache) = MAX_CACHE_SIZE
        /\ imageCache[1] = EarlierEntry(2)
        /\ imageCache[MAX_CACHE_SIZE].value = tasks[t].result.part.url

\* the characters of str from position i on begin with part
HasAt(str, i, part) ==
    /\ i + Len(part) - 1 <= Len(str)
    /\ \A k \in 1..Len(part) : str[i + k - 1] = part[k]

\* str nowhere holds ';base64,'
LacksMarker(str) == \A i \in 1..Len(str) : ~HasAt(str, i, Base64Marker)

\* the first ';base64,' of str is its end
EmptyPayloadSegment(str) ==
    /\ ~LacksMarker(str)
    /\ (CHOOSE i \in 1..Len(str) :
            HasAt(str, i, Base64Marker) /\ \A j \in 1..(i - 1) : ~HasAt(str, j, Base64Marker))
       + Len(Base64Marker) - 1 = Len(str)

\* a parseDataUri call on a string that lacks the prefix or the marker, or has
\* an empty mime or an empty payload segment, has returned null
ParseRejects(t) ==
    (\/ ~startsWith(tasks[t].text, DataPrefix)
     \/ LacksMarker(tasks[t].text)
     \/ startsWith(tasks[t].text, DataPrefix \o <<";">>)
     \/ EmptyPayloadSegment(tasks[t].text))
    => tasks[t].parsed = NoParsed

\* a parseDataUri call on data:<mime>;base64,<payload> with a mime and a
\* payload of at least one character has returned that mime and the bytes the
\* payload decodes to
ParseAccepts(t) ==
    (/\ tasks[t].shape.prefix = DataPrefix
     /\ tasks[t].shape.mime # <<>>
     /\ tasks[t].shape.marker = Base64Marker
     /\ tasks[t].shape.payload # <<>>)
    => tasks[t].parsed = [ok |-> TRUE, mime |-> tasks[t].shape.mime,
                          bytes |-> BufferFromBase64(tasks[t].shape.payload)]

\* C23: parse returns null, and never throws, for every string that lacks the
\* data: prefix, lacks the ';base64,' marker, has an empty mime or an empty
\* payload segment; for every string of the shape
\* data:<mime>;base64,<non-empty payload> it returns the mime and the decoded
\* bytes.
C23_ParseByShape ==
    \A t \in Tasks :
        (tasks[t].kind = "parse" /\ Settled(t)) => (ParseRejects(t) /\ ParseAccepts(t))

\* the data URI built from the image of task t parsed back to that image
RoundTrips(t) ==
    tasks[t].parsed = [ok |-> TRUE, mime |-> tasks[t].image.mime, bytes |-> tasks[t].image.bytes]

\* C24 (as claimed): serialize is the inverse of parse: for every
\* EncodedImage (bytes, mime), parse(serialize(image)) succeeds and yields the
\* same bytes and the same mime.
C24_RoundTripAll ==
    \A t \in Tasks : (tasks[t].kind = "roundtrip" /\ Settled(t)) => RoundTrips(t)

\* C24 (amended): for every EncodedImage of at least one byte,
\* parse(serialize(image)) succeeds and yields the same bytes and the same
\* mime; for an image of no bytes serialize gives an empty payload and parse
\* returns null.
C24_RoundTripOfBytes ==
    \A t \in Tasks :
        (tasks[t].kind = "roundtrip" /\ Settled(t))
        => IF tasks[t].image.bytes # <<>>
           THEN RoundTrips(t)
           ELSE tasks[t].parsed = NoParsed

\* an image of four bytes, 255 among them, whose payload ends in '==', came
\* back from parse as it was
C24_Witness ==
    \E t \in Tasks :
        /\ tasks[t].kind = "roundtrip"
        /\ Settled(t)
        /\ Len(tasks[t].image.bytes) = 4
        /\ \E i \in 1..4 : tasks[t].image.bytes[i] = 255
        /\ tasks[t].text[Len(tasks[t].text)] = "="
        /\ tasks[t].text[Len(tasks[t].text) - 1] = "="
        /\ tasks[t].parsed.ok
        /\ tasks[t].parsed.bytes = tasks[t].image.bytes

\* C25: idempotence: if compress(bytes, mime, maxSize) returned (bytes', mime')
\* with bytes'.length <= maxSize * 0.7, then compress(bytes', mime', maxSize)
\* returns (bytes', mime') unchanged, without a codec call.
C25_Idempotent ==
    \A t \in Tasks :
        (/\ tasks[t].kind = "compress"
         /\ tasks[t].previous # NoImage
         /\ tasks[t].previous.data.len * 10 <= tasks[t].maxSize * 7)
        => /\ Settled(t)
           /\ tasks[t].via = "short"
           /\ tasks[t].out = tasks[t].previous
           /\ tasks[t].encodes = 0
           /\ tasks[t].fallbacks = 0

\* the png an attempt made of a gif, exactly maxSize * 0.7 bytes long, was
\* compressed again and came back as it was
C25_Witness ==
    \E t \in Tasks :
        /\ tasks[t].kind = "compress"
        /\ Settled(t)
        /\ tasks[t].previous.data.origin = "attempt"
        /\ tasks[t].previous.mime = "image/png"
        /\ tasks[t].previous.data.len * 10 = tasks[t].maxSize * 7
        /\ tasks[t].out = tasks[t].previous

\* the base64 text of what task t returned is no longer than its maxSize
TextClearsMaxSize(t) == toBase64(tasks[t].out.data).chars <= tasks[t].maxSize

\* C26 (as claimed): headroom: for every maxSize and every output of n bytes
\* with n <= maxSize * 0.7, the base64 text of the output (4 * ceil(n / 3)
\* characters) is no longer than maxSize.
C26_Headroom ==
    \A t \in Tasks :
        (/\ tasks[t].kind = "compress"
         /\ Returned(t)
         /\ tasks[t].out.data.len * 10 <= tasks[t].maxSize * 7)
        => TextClearsMaxSize(t)

\* C26 (amended): for every maxSize of at least 24 bytes and every output of
\* n bytes with n <= maxSize * 0.7, the base64 text of the output is no
\* longer than maxSize.
C26_HeadroomFrom24 ==
    \A t \in Tasks :
        (/\ tasks[t].kind = "compress"
         /\ Returned(t)
         /\ tasks[t].maxSize >= 24
         /\ tasks[t].out.data.len * 10 <= tasks[t].maxSize * 7)
        => /\ TextClearsMaxSize(t)
           /\ toBase64(tasks[t].out.data).chars = 4 * CeilDiv(tasks[t].out.data.len, 3)

\* with maxSize 24 an attempt returned 16 bytes, whose base64 text is 24
\* characters long
C26_Witness ==
    \E t \in Tasks :
        /\ tasks[t].kind = "compress"
        /\ Returned(t)
        /\ tasks[t].via = "attempt"
        /\ tasks[t].maxSize = 24
        /\ tasks[t].out.data.len = 16
        /\ toBase64(tasks[t].out.data).chars = 24

\* the scale b is the scale a times 0.8
IsShrunk(a, b) == b.n * a.d * 5 = a.n * b.d * 4

\* C27: for image/png and image/gif the adjustment after a failed attempt is:
\* quality < 9 gives (min(9, quality + 2), scale); otherwise (9, scale * 0.8),
\* the factor being applied to the current scale.
C27_LosslessAdjustment ==
    \A t \in Tasks :
        (tasks[t].kind = "adjust" /\ tasks[t].mime \in {"image/png", "image/gif"})
        => IF tasks[t].quality < 9
           THEN /\ tasks[t].adjustment.quality =
                     (IF tasks[t].quality + 2 < 9 THEN tasks[t].quality + 2 ELSE 9)
                /\ tasks[t].adjustment.scale = tasks[t].scale
           ELSE /\ tasks[t].adjustment.quality = 9
                /\ IsShrunk(tasks[t].scale, tasks[t].adjustment.scale)

\* a gif at level 9 and scale 0.8 was adjusted to level 9 and scale 0.64
C27_Witness ==
    \E t \in Tasks :
        /\ tasks[t].kind = "adjust"
        /\ tasks[t].mime = "image/gif"
        /\ tasks[t].quality = 9
        /\ tasks[t].scale = [n |-> 4, d |-> 5]
        /\ tasks[t].adjustment = [quality |-> 9, scale |-> [n |-> 16, d |-> 25]]

\* C28: for every other mime the adjustment after a failed attempt is:
\* quality - 15 > 30 gives (quality - 15, scale); otherwise (85, scale * 0.8).
C28_LossyAdjustment ==
    \A t \in Tasks :
        (tasks[t].kind = "adjust" /\ tasks[t].mime \notin {"image/png", "image/gif"})
        => IF tasks[t].quality - 15 > 30
           THEN /\ tasks[t].adjustment.quality = tasks[t].quality - 15
                /\ tasks[t].adjustment.scale = tasks[t].scale
           ELSE /\ tasks[t].adjustment.quality = 85
                /\ IsShrunk(tasks[t].scale, tasks[t].adjustment.scale)

\* a jpeg at quality 45 and scale 0.8 was adjusted to quality 85 and scale
\* 0.64
C28_Witness ==
    \E t \in Tasks :
        /\ tasks[t].kind = "adjust"
        /\ tasks[t].mime = "image/jpeg"
        /\ tasks[t].quality = 45
        /\ tasks[t].scale = [n |-> 4, d |-> 5]
        /\ tasks[t].adjustment = [quality |-> 85, scale |-> [n |-> 16, d |-> 25]]

\* the scale of every compress call is above 0 and at most 1
ScaleInRange ==
    \A t \in Tasks :
        tasks[t].kind = "compress"
        => /\ tasks[t].scale.n > 0
           /\ tasks[t].scale.d > 0
           /\ tasks[t].scale.n <= tasks[t].scale.d

\* a / b <= c / d for a, c >= 0 and b, d > 0, by the integer parts and then
\* the reciprocals of the fractional parts (no product that could overflow)
RECURSIVE LeqFrac(_, _, _, _)
LeqFrac(a, b, c, d) ==
    IF a \div b # c \div d
    THEN a \div b < c \div d
    ELSE IF a % b = 0
    THEN TRUE
    ELSE IF c % d = 0
    THEN FALSE
    ELSE LeqFrac(d, c % d, b, a % b)

\* a step of the loop of a call leaves its scale as it is or makes it smaller
ScaleNonIncreasing ==
    \A t \in Tasks :
        (tasks[t].pc = "attempt" /\ tasks'[t].pc \in {"attempt", "fallback", "done"})
        => LeqFrac(tasks'[t].scale.n, tasks'[t].scale.d, tasks[t].scale.n, tasks[t].scale.d)

\* C29: within one compress invocation the scale stays in (0, 1] and never
\* grows from one attempt to the next, for every mime and every source size
\* (sources wider or taller than 2048 included).
C29_ScaleShrinksOnly == [](ScaleInRange) /\ [][ScaleNonIncreasing]_vars

\* a jpeg of 4096 x 3072 went through all ten attempts: its scale, 0.5 at the
\* first attempt, is 0.32 at the fallback
C29_Witness ==
    \E t \in Tasks :
        /\ tasks[t].kind = "compress"
        /\ tasks[t].pc = "fallback"
        /\ tasks[t].imageData.width = 4096
        /\ tasks[t].mime = "image/jpeg"
        /\ tasks[t].scale = [n |-> 8, d |-> 25]

\* C30: on every encode the quality handed to the encoder is in range: a
\* compression level in 1..9 for the PNG encodes (png and gif inputs), 9 at the
\* first attempt; a visual quality in 30..90 for every other input, 90 at the
\* first attempt.
C30_QualityInRange ==
    \A t \in Tasks :
        /\ (tasks[t].kind = "compress" /\ tasks[t].pc = "attempt")
           => IF tasks[t].mime \in {"image/png", "image/gif"}
              THEN /\ EncodedFormat(tasks[t].mime) = "png"
                   /\ tasks[t].quality \in 1..9
                   /\ tasks[t].attempt = 0 => tasks[t].quality = 9
              ELSE /\ EncodedFormat(tasks[t].mime) # "png"
                   /\ tasks[t].quality \in 30..90
                   /\ tasks[t].attempt = 0 => tasks[t].quality = 90
        /\ (tasks[t].kind = "compress" /\ tasks[t].pc = "fallback")
           => IF FallbackFormat(tasks[t].mime) = "png"
              THEN FallbackQuality(tasks[t].mime) \in 1..9
              ELSE FallbackQuality(tasks[t].mime) \in 30..90

\* a webp is about to be encoded for the eighth time, at quality 40, and a
\* gif for the third time, at level 9
C30_Witness ==
    \E t \in Tasks :
        /\ tasks[t].kind = "compress"
        /\ tasks[t].pc = "attempt"
        /\ \/ tasks[t].mime = "image/webp" /\ tasks[t].attempt = 7 /\ tasks[t].quality = 40
           \/ tasks[t].mime = "image/gif" /\ tasks[t].attempt = 2 /\ tasks[t].quality = 9


\* the dimensions the pipeline of one pass of the loop encodes at
PassDims(t, i) ==
    resizeImage(tasks[t].width, tasks[t].height, tasks[t].pairs[i].scale)

\* the adjustment after pass i multiplied the scale by 0.8
ShrinkAfter(t, i) ==
    tasks[t].pairs[i + 1].scale = Shrink(tasks[t].pairs[i].scale)

\* scale a is strictly below scale b
ScaleBelow(a, b) == LeqFrac(a.n, a.d, b.n, b.d) /\ ~LeqFrac(b.n, b.d, a.n, a.d)

\* the later pass encodes at dimensions no larger on either side and strictly
\* smaller on at least one
StrictlySmaller(later, earlier) ==
    /\ later.ok /\ earlier.ok
    /\ later.width <= earlier.width /\ later.height <= earlier.height
    /\ later.width < earlier.width \/ later.height < earlier.height

C32_FallbackClampsDown ==
    \A t \in Tasks :
        (tasks[t].kind = "compress" /\ tasks[t].pc = "done" /\ tasks[t].via = "fallback")
            => /\ tasks[t].out.data.width <= tasks[t].width
               /\ tasks[t].out.data.height <= tasks[t].height

\* the part is the attachment with only its url replaced by cached, in a new
\* object
UrlReplaced(part, imagePart, cached) ==
    /\ DOMAIN part = DOMAIN imagePart
    /\ part.url = cached
    /\ part.ref # imagePart.ref
    /\ \A f \in DOMAIN imagePart \ {"url", "ref"} : part[f] = imagePart[f]

\* a call that starts in this step with an inline image whose data URI parses
\* and whose key the cache holds settles in the same step with the cached
\* value, whatever the size of the image; a call that does not get as far as
\* a successful parse has not read the cache
CacheHitStep ==
    \A t \in Tasks :
        CalledNow(t) =>
            LET part == tasks'[t].part
                providerID == tasks'[t].providerID
            IN  IF isImageFilePart(part) /\ parseDataUri(part.url).ok
                THEN LET cached == getCachedImage(imageCache, getCacheKey(providerID, part.url))
                     IN  /\ tasks'[t].lookups = 1
                         /\ Truthy(cached) =>
                               /\ tasks'[t].pc = "done"
                               /\ tasks'[t].result.wasCompressed
                               /\ ~tasks'[t].result.failed
                               /\ UrlReplaced(tasks'[t].result.part, part, cached)
                               /\ tasks'[t].result.originalSize = parseDataUri(part.url).data.len
                               /\ tasks'[t].result.compressedSize
                                      = CeilDiv(cached.payload.chars * 3, 4)
                               /\ ~tasks'[t].engine
                               /\ tasks'[t].encodes = 0 /\ tasks'[t].fallbacks = 0
                               /\ tasks'[t].stores = 0
                               /\ imageCache' = imageCache
                ELSE tasks'[t].lookups = 0

\* C33: on a cache hit for the key (providerID, hash(url)) processImagePart
\* returns wasCompressed = true, failed = false, the attachment with its url
\* replaced by the cached data URI and compressedSize = ceil(cached payload
\* length * 0.75), without invoking the engine and without modifying the
\* cache; the lookup comes after a successful parse and before the
\* under-target check.
C33_CacheHit == [][CacheHitStep]_vars

\* a call for an image that is under target was answered from the cache, with
\* a size that the base64 padding rounds up
C33_Witness ==
    \E t \in Tasks :
        /\ Settled(t) /\ tasks[t].kind = "process"
        /\ tasks[t].lookups = 1 /\ ~tasks[t].engine
        /\ tasks[t].result.wasCompressed
        /\ UnderTarget(tasks[t].result.originalSize, tasks[t].maxSize)
        /\ tasks[t].result.compressedSize # parseDataUri(tasks[t].result.part.url).data.len

\* the number of the latest direct call that set or read the key
UsedAt(cacheKey) == inserted[InsertedIndex(cacheKey)].used

\* an entry that leaves the cache in this step was used no later than every
\* other entry the cache held
EvictsLeastRecentlyUsed ==
    \A gone \in CacheKeys(imageCache) \ CacheKeys(imageCache') :
        \A kept \in CacheKeys(imageCache) :
            (gone \in InsertedKeys /\ kept \in InsertedKeys) => UsedAt(gone) <= UsedAt(kept)

\* C34: the cache evicts in least-recently-used order: when an insert pushes
\* the cache over MAX_CACHE_SIZE entries, the entry removed is the one least
\* recently set or read through getCachedImage.
C34_LeastRecentlyUsed == [][EvictsLeastRecentlyUsed]_vars

\* the call of task t was answered from the cache
CacheHit(t) ==
    /\ Settled(t) /\ tasks[t].kind = "process"
    /\ tasks[t].lookups = 1 /\ ~tasks[t].engine
    /\ tasks[t].result.wasCompressed

\* C35: cache entries are isolated per destination: the data URI a call is
\* answered with from the cache was cached by a call for the same
\* destination, never by a call for a different one.
C35_IsolatedPerDestination ==
    \A u \in Tasks :
        CacheHit(u) =>
            \E t \in Tasks :
                /\ t # u
                /\ tasks[t].providerID = tasks[u].providerID
                /\ tasks[t].stores = 1
                /\ tasks[t].result.part.url = tasks[u].result.part.url

\* two calls for the same image and different destinations each ran the
\* engine, and left two entries in the cache
C35_Witness ==
    /\ \A t \in {1, 2} : Settled(t) /\ tasks[t].stores = 1 /\ tasks[t].part = PhotoPart
    /\ tasks[1].providerID = "anthropic" /\ tasks[2].providerID = "anthropic:1"
    /\ Len(imageCache) = 2

FormatMime(fmt) ==
    CASE fmt = "jpeg" -> "image/jpeg"
      [] fmt = "png" -> "image/png"
      [] fmt = "webp" -> "image/webp"
      [] fmt = "avif" -> "image/avif"

\* C37: for every input mime (supported, image/jpg or unrecognised) and every
\* return of compressImage that re-encoded, the mime returned names the format
\* the returned bytes were encoded in.
C37_MimeNamesFormat ==
    \A t \in Tasks :
        (/\ tasks[t].kind = "compress" /\ tasks[t].pc = "done"
         /\ tasks[t].via \in {"attempt", "fallback"})
            => tasks[t].out.mime = FormatMime(tasks[t].out.data.fmt)

\* the same, for the inputs whose mime is the name of a format or image/gif
C37_SanityNamedFormats ==
    \A t \in Tasks :
        (/\ tasks[t].kind = "compress" /\ tasks[t].pc = "done"
         /\ tasks[t].via \in {"attempt", "fallback"}
         /\ tasks[t].mime \notin {"image/jpg", "image/bmp"})
            => tasks[t].out.mime = FormatMime(tasks[t].out.data.fmt)

\* C38: whenever processImagePart returns wasCompressed = true, from a fresh
\* compression or from a cache hit, the mime field of the returned attachment
\* equals the mime embedded in the returned attachment's data URI.
C38_MimeMatchesUri ==
    \A t \in Tasks :
        (Settled(t) /\ tasks[t].kind = "process" /\ tasks[t].result.wasCompressed)
            => tasks[t].result.part.mime = parseDataUri(tasks[t].result.part.url).mime

\* the same for the results of a fresh compression alone
C38_SanityFresh ==
    \A t \in Tasks :
        (/\ Settled(t) /\ tasks[t].kind = "process" /\ tasks[t].result.wasCompressed
         /\ tasks[t].engine)
            => tasks[t].result.part.mime = parseDataUri(tasks[t].result.part.url).mime

EngineReturnedNow(t) ==
    /\ tasks[t].kind = "process" /\ Running(t)
    /\ tasks'[t].pc = "done"
    /\ tasks'[t].via \in {"attempt", "fallback"}

\* the cache afterwards is the cache before with the key of task t's call set
\* to the data URI the call returns, less the oldest entry when that made it
\* exceed MAX_CACHE_SIZE
StoreOf(t) ==
    LET cacheKey == getCacheKey(tasks[t].providerID, tasks[t].part.url)
        stored == MapSet(imageCache, cacheKey, tasks'[t].result.part.url)
    IN  /\ tasks'[t].result.wasCompressed
        /\ imageCache' = IF Len(stored) > MAX_CACHE_SIZE THEN Tail(stored) ELSE stored

\* a step changes the cache only by the store of a call whose engine returned
\* in that step; every other step of a call leaves the cache as it is
CacheFrame ==
    /\ \A t \in Tasks : EngineReturnedNow(t) => StoreOf(t)
    /\ imageCache' # imageCache => \E t \in Tasks : EngineReturnedNow(t)
    /\ \A t \in Tasks :
          (CalledNow(t) \/ (Running(t) /\ tasks'[t].pc = "done" /\ tasks'[t].via = "threw"))
              => imageCache' = imageCache

\* C40: processImagePart changes the cache only when the engine was invoked
\* and returned: it then sets exactly the one key (providerID, hash(url)) to
\* the new data URI, with at most one eviction; on the no-op, parse-failure,
\* cache-hit, under-target and engine-exception paths the cache is unchanged.
C40_CacheFrame == [][CacheFrame]_vars

\* a call on a full cache has stored its result as the newest entry and the
\* oldest entry is gone; the call before it failed in the engine
C40_Witness ==
    /\ Settled(1) /\ tasks[1].result.failed /\ tasks[1].engine
    /\ Settled(2) /\ tasks[2].stores = 1
    /\ Len(imageCache) = MAX_CACHE_SIZE
    /\ imageCache[1] = EarlierEntry(2)
    /\ imageCache[MAX_CACHE_SIZE] =
          [key |-> getCacheKey("anthropic", tasks[2].part.url),
           value |-> tasks[2].result.part.url]
====
